---------------------------- MODULE Spec2Model ----------------------------
(***************************************************************************)
(* Kurt's fixed-object codec (src/kurt/fixed_objects.py): the container    *)
(* codec (Collection, Dictionary), the run-length Bitmap decoder and the   *)
(* Form pixel engine.                                                       *)
(*                                                                          *)
(* The specifications share the module, one per component:                  *)
(*   SpecContainer  from_value / to_value of the tags 20..25                *)
(*   SpecRLE        Bitmap.from_byte_array                                  *)
(*   SpecForm       Form.from_array / Form.to_array                         *)
(*   SpecDecode     Form.built / Form.to_array on a Form as parsed          *)
(*   SpecColor      TranslucentColor.from_32bit_raw_argb / Color.to_8bit    *)
(*   SpecPng        Form.save_png / Form.load_png                           *)
(*   SpecWire       _construct build / parse of Color, TranslucentColor,    *)
(*   SpecMedia      MediaDict / OrderedMediaDict and NamedObject.name       *)
(*   SpecMedia      MediaDict / OrderedMediaDict and NamedObject.name       *)
(*   SpecProject    Project._normalize and Project.actors                   *)
(*   SpecWire       _construct build / parse of Color, TranslucentColor,    *)
(*                  Bitmap; the ContainsRefs marker of every class          *)
(* Each leaves the other components' variables at their idle values.        *)
(*                                                                          *)
(* Python values are modelled as follows.  A str / array('B') is a          *)
(* sequence of integers 0..255.  A list is a sequence.  A dict is a         *)
(* function from its keys to its values; the order in which Python 2        *)
(* iterates over a dict is not fixed by the language, so every use of       *)
(* that order is a choice over all orders.  None is the empty sequence      *)
(* <<>> and a present optional value x is <<x>>.  A raised exception is a   *)
(* result record with ok = FALSE and the exception's name.                  *)
(***************************************************************************)
EXTENDS Integers, Sequences, FiniteSets, TLC

VARIABLES
    c_cls,      \* container codec: classID of the class from_value is called on
    c_obj,      \* container codec: the parsed Container (items, length)
    c_value,    \* container codec: the decoded object's value, <<>> before decoding
    c_out,      \* container codec: the Container to_value returned, <<>> before
    c_pc,       \* container codec: "parsed", "decoded", "failed", "encoded"
    r_bytes,    \* run-length codec: the byte string handed to from_byte_array
    r_res,      \* run-length codec: what from_byte_array returned or raised
    r_pc,       \* run-length codec: "input", "done"
    f_px,       \* pixel engine: the caller's (width, height, rgba) input
    f_arr,      \* pixel engine: the array the next from_array call is given
    f_form,     \* pixel engine: the Form, <<>> before the first from_array
    f_calls,    \* pixel engine: number of from_array calls made so far
    f_pc,       \* pixel engine: "array" (an array in hand), "form" (a Form in hand)
    d_parsed,   \* image decoder: the Form as the reader parsed it
    d_form,     \* image decoder: the Form now, after the built() calls so far
    d_built,    \* image decoder: number of built() calls that have returned
    d_out,      \* image decoder: what to_array returned, or what was raised
    d_pc,       \* image decoder: "form", "array", "built_raised", "to_array_raised"
    k_raw,      \* colours: the 4 raw bytes given to from_32bit_raw_argb, or <<>>
    k_color,    \* colours: the Color or TranslucentColor in hand, or <<>>
    k_out,      \* colours: what to_8bit returned, <<>> before
    k_pc,       \* colours: "raw", "color", "done"
    p_png,      \* PNG bridge: TRUE when the import of the png module succeeded
    p_op,       \* PNG bridge: "save" or "load", the call made
    p_form,     \* PNG bridge: the Form save_png is called on, or <<>>
    p_image,    \* PNG bridge: what read_flat gives for the file load_png reads, or <<>>
    p_files,    \* PNG bridge: the file operations of save_png so far, in order
    p_out,      \* PNG bridge: what the call returned, or what it raised
    p_pc,       \* PNG bridge: "call", "returned", "raised"
    w_obj,      \* wire codec: the object to encode, or <<>>
    w_wire,     \* wire codec: the bytes built from it, or what building raised
    w_back,     \* wire codec: the object decoded from the bytes, <<>> before
    w_kind,     \* wire codec: the class the reader asks the marker of, or <<>>
    w_marked,   \* wire codec: <<the answer of issubclass(kind, ContainsRefs)>>, <<>> before
    w_pc,       \* wire codec: "object", "built", "build_raised", "parsed", "kind", "asked"
    m_name,     \* media dicts: obj._name of every NamedObject, <<>> for None
    m_dict,     \* media dicts: obj._media_dict of every NamedObject, <<>> for None
    m_md,       \* media dicts: _objects of the MediaDict, key -> object
    m_od,       \* media dicts: _objects of the OrderedMediaDict, <<key, object>> in order
    m_op,       \* media dicts: the last operation and its arguments, <<>> before
    m_pre,      \* media dicts: the state the last operation started from, <<>> before
    m_out,      \* media dicts: "ok" or the exception the last operation raised
    m_raised,   \* media dicts: TRUE once an operation has raised
    m_steps,    \* media dicts: the number of operations run
    n_actors,   \* project: Project.actors, a list of <<kind, id>>
    n_sprites,  \* project: Project.sprites, the sprite ids in order
    n_variables,\* project: the variables of the project, the stage and each sprite
    n_lists,    \* project: the lists of the project, the stage and each sprite
    n_visible,  \* project: the watchers with visible set, as <<kind, id>>
    n_costume,  \* project: per sprite, whether costume is set and costumes is non-empty
    n_plugin,   \* project: Project._plugin: "none", "stage_variables", "global_variables"
    n_project,  \* project: the actors whose project attribute is set
    n_prev,     \* project: Project.actors before the last _normalize, <<>> before
    n_out,      \* project: "ok" or the exception the last _normalize raised
    n_calls     \* project: the number of _normalize calls run

vars == <<c_cls, c_obj, c_value, c_out, c_pc, r_bytes, r_res, r_pc,
          f_px, f_arr, f_form, f_calls, f_pc,
          d_parsed, d_form, d_built, d_out, d_pc, k_raw, k_color, k_out, k_pc,
          p_png, p_op, p_form, p_image, p_files, p_out, p_pc,
          w_obj, w_wire, w_back, w_kind, w_marked, w_pc,
          m_name, m_dict, m_md, m_od, m_op, m_pre, m_out, m_raised, m_steps,
          n_actors, n_sprites, n_variables, n_lists, n_visible, n_costume, n_plugin, n_project, n_prev, n_out, n_calls>>

c_vars == <<c_cls, c_obj, c_value, c_out, c_pc>>
r_vars == <<r_bytes, r_res, r_pc>>
f_vars == <<f_px, f_arr, f_form, f_calls, f_pc>>
d_vars == <<d_parsed, d_form, d_built, d_out, d_pc>>
k_vars == <<k_raw, k_color, k_out, k_pc>>
p_vars == <<p_png, p_op, p_form, p_image, p_files, p_out, p_pc>>
w_vars == <<w_obj, w_wire, w_back, w_kind, w_marked, w_pc>>
m_vars == <<m_name, m_dict, m_md, m_od, m_op, m_pre, m_out, m_raised, m_steps>>
n_vars == <<n_actors, n_sprites, n_variables, n_lists, n_visible, n_costume, n_plugin, n_project, n_prev, n_out, n_calls>>

(***************************************************************************)
(* Generic helpers.                                                         *)
(***************************************************************************)

\* All sequences over S of length at most n.
SeqsUpTo(S, n) == UNION { [1..k -> S] : k \in 0..n }

\* All orders in which the elements of the finite set S can be listed.
Orderings(S) ==
    { s \in [1..Cardinality(S) -> S] :
        \A i, j \in 1..Cardinality(S) : i # j => s[i] # s[j] }

\* The sequence s repeated n times.
RECURSIVE Repeat(_, _)
Repeat(s, n) == IF n <= 0 THEN <<>> ELSE s \o Repeat(s, n - 1)

\* The concatenation of a sequence of sequences.
RECURSIVE Flatten(_)
Flatten(ss) ==
    IF Len(ss) = 0 THEN <<>>
    ELSE IF Len(ss) = 1 THEN ss[1]
    ELSE LET half == Len(ss) \div 2
         IN  Flatten(SubSeq(ss, 1, half)) \o Flatten(SubSeq(ss, half + 1, Len(ss)))

(***************************************************************************)
(* Container codec: FixedObjectWithRepeater, Collection, Dictionary.        *)
(***************************************************************************)

\* Largest number of records in a parsed Container, and largest declared length.
MaxItems == 3

\* The opaque Field values stored in containers.
FieldVals == {"x", "y"}

\* classIDs of Array, OrderedCollection, Set, IdentitySet.
CollectionIDs == {20, 21, 22, 23}

\* classIDs of Dictionary, IdentityDictionary.
DictionaryIDs == {24, 25}

\* The records of a parsed dictionary: Struct("items", key, value).
PairVals == [key : FieldVals, value : FieldVals]

\* The Containers of at most n records Collection.from_value can be called
\* with: the items and a declared length, which from_value compares itself.
CollectionObjs(n) == [items : SeqsUpTo(FieldVals, n), length : 0..n]

\* The Containers of at most n records Dictionary.from_value can be called
\* with: the (key, value) items and a declared length.
DictionaryObjs(n) == [items : SeqsUpTo(PairVals, n), length : 0..n]

\* FixedObjectWithRepeater.from_value: assert the count, keep the items.
FixedObjectWithRepeater_from_value(obj) ==
    IF Len(obj.items) = obj.length
    THEN [ok |-> TRUE, value |-> obj.items]
    ELSE [ok |-> FALSE, error |-> "AssertionError"]

\* FixedObjectWithRepeater.to_value writing a length that is one too large.
FixedObjectWithRepeater_to_value_off_by_one(value) ==
    [items |-> value, length |-> Len(value) + 1]

\* FixedObjectWithRepeater.to_value: the value and its len().
FixedObjectWithRepeater_to_value(value) ==
    [items |-> value, length |-> Len(value)]

\* dict(pairs) keeping the first value stored under a key instead of the last.
RECURSIVE dict_first_wins(_)
dict_first_wins(pairs) ==
    IF pairs = <<>> THEN <<>>
    ELSE LET d == dict_first_wins(Tail(pairs))
             p == Head(pairs)
         IN  [k \in DOMAIN d \cup {p.key} |-> IF k = p.key THEN p.value ELSE d[k]]

\* Python's dict(list of (key, value)): the pairs are stored one after the
\* other, a later pair replacing the value an earlier one stored under its key.
RECURSIVE dict(_)
dict(pairs) ==
    IF pairs = <<>> THEN <<>>
    ELSE LET d == dict(SubSeq(pairs, 1, Len(pairs) - 1))
             p == pairs[Len(pairs)]
         IN  [k \in DOMAIN d \cup {p.key} |-> IF k = p.key THEN p.value ELSE d[k]]

\* Dictionary.from_value: no assertion; the items become a dict.
Dictionary_from_value(obj) ==
    [ok |-> TRUE, value |-> dict(obj.items)]

\* The (key, value) Containers of a dict, as a set.
dict_items(d) == { [key |-> k, value |-> d[k]] : k \in DOMAIN d }

\* Dictionary.to_value dropping one entry of a non-empty dict.
Dictionary_to_value_results_drop(value) ==
    { [items |-> IF items = <<>> THEN items ELSE Tail(items), length |-> Len(items)] :
        items \in Orderings(dict_items(value)) }

\* Dictionary.to_value: one Container per entry of dict(self.value), in the
\* order .items() lists them, and their count.  The results it can return,
\* one per iteration order.
Dictionary_to_value_results(value) ==
    { [items |-> items, length |-> Len(items)] :
        items \in Orderings(dict_items(value)) }

\* cls.from_value(obj) for the class with classID cls.
from_value(cls, obj) ==
    IF cls \in DictionaryIDs
    THEN Dictionary_from_value(obj)
    ELSE FixedObjectWithRepeater_from_value(obj)

\* The results self.to_value() can return for an object of classID cls.
to_value_results(cls, value) ==
    IF cls \in DictionaryIDs
    THEN Dictionary_to_value_results(value)
    ELSE { FixedObjectWithRepeater_to_value(value) }

\* A Container has been parsed for one of the tags 20..25.
InitContainer ==
    /\ c_cls \in CollectionIDs \cup DictionaryIDs
    /\ c_obj \in IF c_cls \in DictionaryIDs
                 THEN DictionaryObjs(MaxItems)
                 ELSE CollectionObjs(MaxItems)
    /\ c_value = <<>>
    /\ c_out = <<>>
    /\ c_pc = "parsed"

\* The container codec is not in use.
IdleContainer ==
    /\ c_cls = 0
    /\ c_obj = <<>>
    /\ c_value = <<>>
    /\ c_out = <<>>
    /\ c_pc = "idle"

\* FixedObject.from_construct: cls.from_value(obj.value) returns the object.
FromValue ==
    /\ c_pc = "parsed"
    /\ from_value(c_cls, c_obj).ok
    /\ c_value' = from_value(c_cls, c_obj).value
    /\ c_pc' = "decoded"
    /\ UNCHANGED <<c_cls, c_obj, c_out, r_vars, f_vars, d_vars, k_vars, p_vars, w_vars, m_vars, n_vars>>

\* FixedObject.from_construct: cls.from_value(obj.value) raises.
FromValueRaises ==
    /\ c_pc = "parsed"
    /\ ~from_value(c_cls, c_obj).ok
    /\ c_pc' = "failed"
    /\ UNCHANGED <<c_cls, c_obj, c_value, c_out, r_vars, f_vars, d_vars, k_vars, p_vars, w_vars, m_vars, n_vars>>

\* FixedObject.to_construct: self.to_value() of the decoded object.
ToValue ==
    /\ c_pc = "decoded"
    /\ c_out' \in to_value_results(c_cls, c_value)
    /\ c_pc' = "encoded"
    /\ UNCHANGED <<c_cls, c_obj, c_value, r_vars, f_vars, d_vars, k_vars, p_vars, w_vars, m_vars, n_vars>>

(***************************************************************************)
(* Bitmap run-length codec: Bitmap._int, Bitmap._length_run_coding,         *)
(* Bitmap.from_byte_array.                                                  *)
(*                                                                          *)
(* A construct parser reads a stream s from position pos (1-based, the      *)
(* next byte to read).  Its result is [ok |-> TRUE, ..., pos |-> next] or   *)
(* [ok |-> FALSE] when the stream ends before the field is read             *)
(* (construct's FieldError, a ConstructError).                              *)
(***************************************************************************)

\* Largest number of chunks an input of the run-length decoder is built from.
MaxChunks == 4

\* Largest run_length of a run header met while decoding an input.
MaxRunLength == 3

\* Bytes the inputs are built from: run headers for every data_code
\* (2: code 2 x0, 5: code 1 x1, 8: code 0 x2, 11: code 3 x2, 14: code 2 x3)
\* and the first bytes of the longer integer forms.
ByteVals == {2, 5, 8, 11, 14, 224, 255}

\* 4-byte words the inputs are built from.
WordVals == { <<1, 2, 3, 4>>, <<0, 0, 0, 5>> }

\* First bytes on both sides of the boundaries of the three integer forms.
EdgeVals == {223, 224, 254, 255}

\* construct's UBInt32: 4 bytes, big-endian, unsigned.
UBInt32(s, pos) ==
    ((s[pos] * 256 + s[pos + 1]) * 256 + s[pos + 2]) * 256 + s[pos + 3]

\* Bitmap._int taking the two-byte form from 225 on instead of 224.
Bitmap_int_late_second_byte(s, pos) ==
    IF pos > Len(s) THEN [ok |-> FALSE]
    ELSE IF s[pos] > 224
         THEN IF s[pos] <= 254
              THEN IF pos + 1 > Len(s) THEN [ok |-> FALSE]
                   ELSE [ok |-> TRUE,
                         value |-> (s[pos] - 224) * 256 + s[pos + 1],
                         pos |-> pos + 2]
              ELSE IF pos + 4 > Len(s) THEN [ok |-> FALSE]
                   ELSE [ok |-> TRUE, value |-> UBInt32(s, pos + 1), pos |-> pos + 5]
         ELSE [ok |-> TRUE, value |-> s[pos], pos |-> pos + 1]

\* Bitmap._int: UBInt8 _value; if _value > 223 then, if _value <= 254, a
\* second byte and (_value - 224) * 256 + _second_byte, else a UBInt32.
Bitmap_int(s, pos) ==
    IF pos > Len(s) THEN [ok |-> FALSE]
    ELSE IF s[pos] > 223
         THEN IF s[pos] <= 254
              THEN IF pos + 1 > Len(s) THEN [ok |-> FALSE]
                   ELSE [ok |-> TRUE,
                         value |-> (s[pos] - 224) * 256 + s[pos + 1],
                         pos |-> pos + 2]
              ELSE IF pos + 4 > Len(s) THEN [ok |-> FALSE]
                   ELSE [ok |-> TRUE, value |-> UBInt32(s, pos + 1), pos |-> pos + 5]
         ELSE [ok |-> TRUE, value |-> s[pos], pos |-> pos + 1]

\* StrictRepeater(run_length, Bytes("pixels", 4)) listing the words last to first.
RECURSIVE literal_words_reversed(_, _, _)
literal_words_reversed(s, pos, n) ==
    IF n <= 0 THEN [ok |-> TRUE, pixels |-> <<>>, pos |-> pos]
    ELSE IF pos + 3 > Len(s) THEN [ok |-> FALSE]
    ELSE LET rest == literal_words_reversed(s, pos + 4, n - 1)
         IN  IF rest.ok
             THEN [ok |-> TRUE,
                   pixels |-> rest.pixels \o <<SubSeq(s, pos, pos + 3)>>,
                   pos |-> rest.pos]
             ELSE [ok |-> FALSE]

\* StrictRepeater(run_length, Bytes("pixels", 4)): n words read one after the
\* other; fails when the stream ends first.
RECURSIVE literal_words(_, _, _)
literal_words(s, pos, n) ==
    IF n <= 0 THEN [ok |-> TRUE, pixels |-> <<>>, pos |-> pos]
    ELSE IF pos + 3 > Len(s) THEN [ok |-> FALSE]
    ELSE LET rest == literal_words(s, pos + 4, n - 1)
         IN  IF rest.ok
             THEN [ok |-> TRUE,
                   pixels |-> <<SubSeq(s, pos, pos + 3)>> \o rest.pixels,
                   pos |-> rest.pos]
             ELSE [ok |-> FALSE]

\* The Switch on data_code repeating the word of a code-2 run once too few.
run_body_short_repeat(s, pos, data_code, run_length) ==
    CASE data_code = 0 ->
           [ok |-> TRUE,
            pixels |-> [i \in 1..run_length |-> <<0, 0, 0, 0>>],
            pos |-> pos]
      [] data_code = 1 ->
           IF pos > Len(s) THEN [ok |-> FALSE]
           ELSE [ok |-> TRUE,
                 pixels |-> [i \in 1..run_length |-> Repeat(<<s[pos]>>, 4)],
                 pos |-> pos + 1]
      [] data_code = 2 ->
           IF pos + 3 > Len(s) THEN [ok |-> FALSE]
           ELSE [ok |-> TRUE,
                 pixels |-> [i \in 1..(run_length - 1) |-> SubSeq(s, pos, pos + 3)],
                 pos |-> pos + 4]
      [] data_code = 3 -> literal_words(s, pos, run_length)

\* The Switch on data_code: the body of a run, given its run_length.
\* pixels is the list of 4-byte words of the run.
run_body(s, pos, data_code, run_length) ==
    CASE data_code = 0 ->
           [ok |-> TRUE,
            pixels |-> [i \in 1..run_length |-> <<0, 0, 0, 0>>],
            pos |-> pos]
      [] data_code = 1 ->
           IF pos > Len(s) THEN [ok |-> FALSE]
           ELSE [ok |-> TRUE,
                 pixels |-> [i \in 1..run_length |-> Repeat(<<s[pos]>>, 4)],
                 pos |-> pos + 1]
      [] data_code = 2 ->
           IF pos + 3 > Len(s) THEN [ok |-> FALSE]
           ELSE [ok |-> TRUE,
                 pixels |-> [i \in 1..run_length |-> SubSeq(s, pos, pos + 3)],
                 pos |-> pos + 4]
      [] data_code = 3 -> literal_words(s, pos, run_length)

\* Struct("data") with the header split as run_length = _value % 4.
run_data_swapped(s, pos) ==
    LET hdr == Bitmap_int(s, pos) IN
    IF ~hdr.ok THEN [ok |-> FALSE]
    ELSE LET run_length == hdr.value % 4
             data_code  == ((hdr.value - run_length) \div 4) % 4
             body == run_body(s, hdr.pos, data_code, run_length)
         IN  IF ~body.ok THEN [ok |-> FALSE]
             ELSE [ok |-> TRUE,
                   run |-> [data_code |-> data_code, run_length |-> run_length,
                            pixels |-> body.pixels],
                   pos |-> body.pos]

\* Struct("data"): one run: the header _int, data_code = _value % 4,
\* run_length = (_value - data_code) / 4, then the body.
run_data(s, pos) ==
    LET hdr == Bitmap_int(s, pos) IN
    IF ~hdr.ok THEN [ok |-> FALSE]
    ELSE LET data_code  == hdr.value % 4
             run_length == (hdr.value - data_code) \div 4
             body == run_body(s, hdr.pos, data_code, run_length)
         IN  IF ~body.ok THEN [ok |-> FALSE]
             ELSE [ok |-> TRUE,
                   run |-> [data_code |-> data_code, run_length |-> run_length,
                            pixels |-> body.pixels],
                   pos |-> body.pos]

\* OptionalGreedyRepeater(Struct("data")): runs are parsed until one fails;
\* the failure ends the list and is not raised.
RECURSIVE greedy_runs(_, _)
greedy_runs(s, pos) ==
    LET r == run_data(s, pos) IN
    IF r.ok THEN <<r.run>> \o greedy_runs(s, r.pos) ELSE <<>>

\* Bitmap._length_run_coding.parse: the length, then the runs.  A failure to
\* read the length is raised.
Bitmap_length_run_coding(s) ==
    LET len == Bitmap_int(s, 1) IN
    IF ~len.ok THEN [ok |-> FALSE, error |-> "FieldError"]
    ELSE [ok |-> TRUE, length |-> len.value, data |-> greedy_runs(s, len.pos)]

\* The loop of from_byte_array: data += pixel for every pixel of every run.
RECURSIVE join_pixels(_)
join_pixels(runs) ==
    IF runs = <<>> THEN <<>>
    ELSE Flatten(Head(runs).pixels) \o join_pixels(Tail(runs))

\* from_byte_array keeping only the `length` words the prefix declares.
Bitmap_from_byte_array_counted(s) ==
    LET runs == Bitmap_length_run_coding(s) IN
    IF ~runs.ok THEN [ok |-> FALSE, error |-> runs.error]
    ELSE LET data == join_pixels(runs.data)
             kept == IF 4 * runs.length < Len(data) THEN 4 * runs.length
                     ELSE Len(data)
         IN  [ok |-> TRUE, value |-> SubSeq(data, 1, kept),
              length |-> runs.length, runs |-> runs.data]

\* Bitmap.from_byte_array: parse, then join; value is the new Bitmap's value.
\* runs and length are kept beside it for reference.
Bitmap_from_byte_array(s) ==
    LET runs == Bitmap_length_run_coding(s) IN
    IF ~runs.ok THEN [ok |-> FALSE, error |-> runs.error]
    ELSE [ok |-> TRUE, value |-> join_pixels(runs.data),
          length |-> runs.length, runs |-> runs.data]

\* Number of stream bytes the body of a run takes.
BodySize(data_code, run_length) ==
    CASE data_code = 0 -> 0
      [] data_code = 1 -> 1
      [] data_code = 2 -> 4
      [] data_code = 3 -> 4 * run_length

\* Every run header the decoder meets from pos on has run_length <= MaxRunLength.
RECURSIVE RunLengthsBounded(_, _)
RunLengthsBounded(s, pos) ==
    LET hdr == Bitmap_int(s, pos) IN
    IF ~hdr.ok THEN TRUE
    ELSE LET data_code  == hdr.value % 4
             run_length == (hdr.value - data_code) \div 4
             next == hdr.pos + BodySize(data_code, run_length)
         IN  /\ run_length <= MaxRunLength
             /\ (next - 1 <= Len(s) => RunLengthsBounded(s, next))

\* Every 32-bit integer that can be read from s is below 2^31, the largest
\* integer the model checker computes with: no byte 255 is followed by a
\* byte above 127.
IntsFit(s) == \A i \in 1..(Len(s) - 1) : s[i] = 255 => s[i + 1] < 128

\* The byte strings given to from_byte_array: up to n chunks, each a byte or
\* a word, and the integer-form boundaries followed by up to n bytes.
RLEInputs(n) ==
    LET chunks == { <<b>> : b \in ByteVals } \cup WordVals
        built  == { Flatten(cs) : cs \in SeqsUpTo(chunks, n) }
        edges  == { <<b>> \o t : b \in EdgeVals, t \in SeqsUpTo({0, 5}, n) }
    IN  { s \in built \cup edges :
            /\ IntsFit(s)
            /\ Bitmap_int(s, 1).ok => RunLengthsBounded(s, Bitmap_int(s, 1).pos) }

\* A byte string is about to be decoded.
InitRLE ==
    /\ r_bytes \in RLEInputs(MaxChunks)
    /\ r_res = <<>>
    /\ r_pc = "input"

\* The run-length codec is not in use.
IdleRLE ==
    /\ r_bytes = <<>>
    /\ r_res = <<>>
    /\ r_pc = "idle"

\* Bitmap.from_byte_array(bytes) returns a Bitmap.
FromByteArray ==
    /\ r_pc = "input"
    /\ Bitmap_from_byte_array(r_bytes).ok
    /\ r_res' = Bitmap_from_byte_array(r_bytes)
    /\ r_pc' = "done"
    /\ UNCHANGED <<r_bytes, c_vars, f_vars, d_vars, k_vars, p_vars, w_vars, m_vars, n_vars>>

\* Bitmap.from_byte_array(bytes) raises.
FromByteArrayRaises ==
    /\ r_pc = "input"
    /\ ~Bitmap_from_byte_array(r_bytes).ok
    /\ r_res' = Bitmap_from_byte_array(r_bytes)
    /\ r_pc' = "done"
    /\ UNCHANGED <<r_bytes, c_vars, f_vars, d_vars, k_vars, p_vars, w_vars, m_vars, n_vars>>

(***************************************************************************)
(* Form pixel engine: Color.to_rgba_array, squeak_colors, Form._to_pixels,  *)
(* Form.to_array, Form.from_array.                                          *)
(***************************************************************************)

\* Largest number of pixels (width * height) of an array given to from_array.
MaxPixels == 2

\* Number of from_array calls in a run of the pixel engine.
MaxCalls == 2

\* Values of the r, g, b components of the pixels given to from_array.
ChannelVals == {0, 200}

\* Values of the alpha component of the pixels given to from_array.
AlphaVals == {0, 128, 255}

\* Python's s[i:j] for 0 <= i <= j on a sequence (0-based, j exclusive).
PySlice(s, i, j) ==
    IF i >= Len(s) THEN <<>>
    ELSE SubSeq(s, i + 1, IF j > Len(s) THEN Len(s) ELSE j)

\* x >> n for x >= 0.
RECURSIVE ShiftRight(_, _)
ShiftRight(x, n) == IF n <= 0 THEN x ELSE ShiftRight(x \div 2, n - 1)

\* 2 to the power n.
RECURSIVE Pow2(_)
Pow2(n) == IF n <= 0 THEN 1 ELSE 2 * Pow2(n - 1)

\* squeak_color_data: the bytes of the string literal.
squeak_color_data == <<
    255, 255, 255, 0, 0, 0, 255, 255, 255, 128, 128, 128, 255, 0, 0, 0, 255, 0, 0, 0, 255, 0, 255, 255,
    255, 255, 0, 255, 0, 255, 32, 32, 32, 64, 64, 64, 96, 96, 96, 159, 159, 159, 191, 191, 191, 223, 223, 223,
    8, 8, 8, 16, 16, 16, 24, 24, 24, 40, 40, 40, 48, 48, 48, 56, 56, 56, 72, 72, 72, 80, 80, 80,
    88, 88, 88, 104, 104, 104, 112, 112, 112, 120, 120, 120, 135, 135, 135, 143, 143, 143, 151, 151, 151, 167, 167, 167,
    175, 175, 175, 183, 183, 183, 199, 199, 199, 207, 207, 207, 215, 215, 215, 231, 231, 231, 239, 239, 239, 247, 247, 247,
    0, 0, 0, 0, 51, 0, 0, 102, 0, 0, 153, 0, 0, 204, 0, 0, 255, 0, 0, 0, 51, 0, 51, 51,
    0, 102, 51, 0, 153, 51, 0, 204, 51, 0, 255, 51, 0, 0, 102, 0, 51, 102, 0, 102, 102, 0, 153, 102,
    0, 204, 102, 0, 255, 102, 0, 0, 153, 0, 51, 153, 0, 102, 153, 0, 153, 153, 0, 204, 153, 0, 255, 153,
    0, 0, 204, 0, 51, 204, 0, 102, 204, 0, 153, 204, 0, 204, 204, 0, 255, 204, 0, 0, 255, 0, 51, 255,
    0, 102, 255, 0, 153, 255, 0, 204, 255, 0, 255, 255, 51, 0, 0, 51, 51, 0, 51, 102, 0, 51, 153, 0,
    51, 204, 0, 51, 255, 0, 51, 0, 51, 51, 51, 51, 51, 102, 51, 51, 153, 51, 51, 204, 51, 51, 255, 51,
    51, 0, 102, 51, 51, 102, 51, 102, 102, 51, 153, 102, 51, 204, 102, 51, 255, 102, 51, 0, 153, 51, 51, 153,
    51, 102, 153, 51, 153, 153, 51, 204, 153, 51, 255, 153, 51, 0, 204, 51, 51, 204, 51, 102, 204, 51, 153, 204,
    51, 204, 204, 51, 255, 204, 51, 0, 255, 51, 51, 255, 51, 102, 255, 51, 153, 255, 51, 204, 255, 51, 255, 255,
    102, 0, 0, 102, 51, 0, 102, 102, 0, 102, 153, 0, 102, 204, 0, 102, 255, 0, 102, 0, 51, 102, 51, 51,
    102, 102, 51, 102, 153, 51, 102, 204, 51, 102, 255, 51, 102, 0, 102, 102, 51, 102, 102, 102, 102, 102, 153, 102,
    102, 204, 102, 102, 255, 102, 102, 0, 153, 102, 51, 153, 102, 102, 153, 102, 153, 153, 102, 204, 153, 102, 255, 153,
    102, 0, 204, 102, 51, 204, 102, 102, 204, 102, 153, 204, 102, 204, 204, 102, 255, 204, 102, 0, 255, 102, 51, 255,
    102, 102, 255, 102, 153, 255, 102, 204, 255, 102, 255, 255, 153, 0, 0, 153, 51, 0, 153, 102, 0, 153, 153, 0,
    153, 204, 0, 153, 255, 0, 153, 0, 51, 153, 51, 51, 153, 102, 51, 153, 153, 51, 153, 204, 51, 153, 255, 51,
    153, 0, 102, 153, 51, 102, 153, 102, 102, 153, 153, 102, 153, 204, 102, 153, 255, 102, 153, 0, 153, 153, 51, 153,
    153, 102, 153, 153, 153, 153, 153, 204, 153, 153, 255, 153, 153, 0, 204, 153, 51, 204, 153, 102, 204, 153, 153, 204,
    153, 204, 204, 153, 255, 204, 153, 0, 255, 153, 51, 255, 153, 102, 255, 153, 153, 255, 153, 204, 255, 153, 255, 255,
    204, 0, 0, 204, 51, 0, 204, 102, 0, 204, 153, 0, 204, 204, 0, 204, 255, 0, 204, 0, 51, 204, 51, 51,
    204, 102, 51, 204, 153, 51, 204, 204, 51, 204, 255, 51, 204, 0, 102, 204, 51, 102, 204, 102, 102, 204, 153, 102,
    204, 204, 102, 204, 255, 102, 204, 0, 153, 204, 51, 153, 204, 102, 153, 204, 153, 153, 204, 204, 153, 204, 255, 153,
    204, 0, 204, 204, 51, 204, 204, 102, 204, 204, 153, 204, 204, 204, 204, 204, 255, 204, 204, 0, 255, 204, 51, 255,
    204, 102, 255, 204, 153, 255, 204, 204, 255, 204, 255, 255, 255, 0, 0, 255, 51, 0, 255, 102, 0, 255, 153, 0,
    255, 204, 0, 255, 255, 0, 255, 0, 51, 255, 51, 51, 255, 102, 51, 255, 153, 51, 255, 204, 51, 255, 255, 51,
    255, 0, 102, 255, 51, 102, 255, 102, 102, 255, 153, 102, 255, 204, 102, 255, 255, 102, 255, 0, 153, 255, 51, 153,
    255, 102, 153, 255, 153, 153, 255, 204, 153, 255, 255, 153, 255, 0, 204, 255, 51, 204, 255, 102, 204, 255, 153, 204,
    255, 204, 204, 255, 255, 204, 255, 0, 255, 255, 51, 255, 255, 102, 255, 255, 153, 255, 255, 204, 255, 255, 255, 255
    >>

\* squeak_colors: for i in range(0, len(data), 4): color = data[i:i+4];
\* append array("B", color[i:i+4]).  0-based, as Python indexes it.
squeak_colors ==
    [k \in 0..(((Len(squeak_color_data) + 3) \div 4) - 1) |->
        PySlice(PySlice(squeak_color_data, 4 * k, 4 * k + 4), 4 * k, 4 * k + 4)]

\* to_8bit shifting by one bit only.
Color_to_8bit_one_bit(color) ==
    IF color.cls = "TranslucentColor"
    THEN <<ShiftRight(color.r, 1), ShiftRight(color.g, 1),
           ShiftRight(color.b, 1), ShiftRight(color.alpha, 1)>>
    ELSE <<ShiftRight(color.r, 1), ShiftRight(color.g, 1), ShiftRight(color.b, 1)>>

\* Color.to_8bit / TranslucentColor.to_8bit: x >> 2 for every x of self.value.
Color_to_8bit(color) ==
    IF color.cls = "TranslucentColor"
    THEN <<ShiftRight(color.r, 2), ShiftRight(color.g, 2),
           ShiftRight(color.b, 2), ShiftRight(color.alpha, 2)>>
    ELSE <<ShiftRight(color.r, 2), ShiftRight(color.g, 2), ShiftRight(color.b, 2)>>

\* to_rgba_array with alpha 255 for every class of colour.
Color_to_rgba_array_opaque(color) ==
    <<ShiftRight(color.r, 2), ShiftRight(color.g, 2), ShiftRight(color.b, 2), 255>>

\* Color.to_rgba_array: (r, g, b, 255); TranslucentColor.to_rgba_array: to_8bit().
Color_to_rgba_array(color) ==
    IF color.cls = "TranslucentColor"
    THEN Color_to_8bit(color)
    ELSE Color_to_8bit(color) \o <<255>>

\* Form(**fields) as from_array builds it: privateOffset and colors stay None.
Form(width, height, depth, bits) ==
    [width |-> width, height |-> height, depth |-> depth,
     privateOffset |-> <<>>, bits |-> bits, colors |-> <<>>]

\* Bitmap(value).
Bitmap(value) == [cls |-> "Bitmap", value |-> value]

\* The loop of from_array: raw += a r g b for every (r, g, b, a).
RECURSIVE raw_argb(_)
raw_argb(rgba_array) ==
    IF rgba_array = <<>> THEN <<>>
    ELSE <<rgba_array[4], rgba_array[1], rgba_array[2], rgba_array[3]>>
         \o raw_argb(SubSeq(rgba_array, 5, Len(rgba_array)))

\* Form.from_array: a depth-32 Form over the raw words.  Unpacking a last
\* slice of fewer than 4 values raises ValueError.
Form_from_array(width, height, rgba_array) ==
    IF Len(rgba_array) % 4 # 0
    THEN [ok |-> FALSE, error |-> "ValueError"]
    ELSE [ok |-> TRUE, form |-> Form(width, height, 32, Bitmap(raw_argb(rgba_array)))]

\* The depth-32 branch of _to_pixels without the forgotten-alpha correction.
RECURSIVE pixels_32_uncorrected(_)
pixels_32_uncorrected(pixel_bytes) ==
    IF pixel_bytes = <<>> THEN [pixels |-> <<>>, error |-> <<>>]
    ELSE IF Len(pixel_bytes) < 4 THEN [pixels |-> <<>>, error |-> <<"ValueError">>]
    ELSE LET rest == pixels_32_uncorrected(SubSeq(pixel_bytes, 5, Len(pixel_bytes)))
         IN  [pixels |-> << <<pixel_bytes[2], pixel_bytes[3], pixel_bytes[4],
                               pixel_bytes[1]>> >> \o rest.pixels,
              error |-> rest.error]

\* The depth-32 branch of _to_pixels making every alpha 0 opaque, whatever
\* r, g and b are.
RECURSIVE pixels_32_opaque_zero(_)
pixels_32_opaque_zero(pixel_bytes) ==
    IF pixel_bytes = <<>> THEN [pixels |-> <<>>, error |-> <<>>]
    ELSE IF Len(pixel_bytes) < 4 THEN [pixels |-> <<>>, error |-> <<"ValueError">>]
    ELSE LET rest == pixels_32_opaque_zero(SubSeq(pixel_bytes, 5, Len(pixel_bytes)))
         IN  [pixels |-> << <<pixel_bytes[2], pixel_bytes[3], pixel_bytes[4],
                               IF pixel_bytes[1] = 0 THEN 255 ELSE pixel_bytes[1]>> >>
                          \o rest.pixels,
              error |-> rest.error]

\* The depth-32 branch of _to_pixels: every word (a, r, g, b) is yielded as
\* (r, g, b, a), with a = 255 when a = 0 and r, g or b is not 0.  A last
\* slice of fewer than 4 bytes raises ValueError after the pixels before it.
RECURSIVE pixels_32(_)
pixels_32(pixel_bytes) ==
    IF pixel_bytes = <<>> THEN [pixels |-> <<>>, error |-> <<>>]
    ELSE IF Len(pixel_bytes) < 4 THEN [pixels |-> <<>>, error |-> <<"ValueError">>]
    ELSE LET a == pixel_bytes[1]
             r == pixel_bytes[2]
             g == pixel_bytes[3]
             b == pixel_bytes[4]
             a2 == IF a = 0 /\ (r > 0 \/ g > 0 \/ b > 0) THEN 255 ELSE a
             rest == pixels_32(SubSeq(pixel_bytes, 5, Len(pixel_bytes)))
         IN  [pixels |-> << <<r, g, b, a2>> >> \o rest.pixels, error |-> rest.error]

\* BitStruct(MetaRepeater(length, Bits("pixels", depth))): the k-th (0-based)
\* depth-bit field of the bytes, most significant bit first.
pixel_index(pixel_bytes, depth, k) ==
    LET per_byte == 8 \div depth
        byte  == pixel_bytes[(k \div per_byte) + 1]
        shift == 8 - depth * ((k % per_byte) + 1)
    IN  ShiftRight(byte, shift) % Pow2(depth)

\* for pixel in pixels: yield colors[pixel], from the k-th pixel on; a pixel
\* beyond the palette raises IndexError after the colours before it.
pixels_indexed(pixel_bytes, depth, colors, k, length) ==
    LET beyond == { j \in k..(length - 1) :
                      pixel_index(pixel_bytes, depth, j) \notin DOMAIN colors }
        stop == IF beyond = {} THEN length
                ELSE CHOOSE j \in beyond : \A m \in beyond : j <= m
    IN  [pixels |-> [j \in 1..(stop - k) |->
                        colors[pixel_index(pixel_bytes, depth, k + j - 1)]],
         error |-> IF beyond = {} THEN <<>> ELSE <<"IndexError">>]

\* _to_pixels with a depth-16 branch that yields the words like depth 32.
Form_to_pixels_16_as_32(form) ==
    IF form.depth = 32 \/ form.depth = 16 THEN pixels_32(form.bits.value)
    ELSE [pixels |-> <<>>, error |-> <<>>]

\* Form._to_pixels: the colours the generator yields, in order, and the
\* exception it ends with (<<>>: it ends normally, with StopIteration).
Form_to_pixels(form) ==
    IF form.depth = 32 THEN pixels_32(form.bits.value)
    ELSE IF form.depth = 16 THEN [pixels |-> <<>>, error |-> <<"NotImplementedError">>]
    ELSE IF form.depth <= 8
    THEN LET colors == IF form.colors = <<>>
                       THEN squeak_colors
                       ELSE [k \in 0..(Len(form.colors[1]) - 1) |->
                                Color_to_rgba_array(form.colors[1][k + 1])]
             length == (Len(form.bits.value) * 8) \div form.depth
         IN  pixels_indexed(form.bits.value, form.depth, colors, 0, length)
    ELSE [pixels |-> <<>>, error |-> <<>>]

\* The while loop of to_array over the pixels the generator yields.  x >=
\* width holds after every `row` pixels (after every pixel when width <= 1),
\* and the skip loop then takes `skip` more, so the generator's output is
\* consumed in periods of row + skip pixels of which the first `row` are
\* added to rgba.  The pixels.next() of the while loop is inside the try:
\* the generator ending there ends the loop.  The ones of the skip loop are
\* not: the generator ending there lets StopIteration escape.  Any other
\* exception of the generator escapes from either place.
to_array_loop(gen, width, skip) ==
    LET n == Len(gen.pixels)
        row == IF width > 1 THEN width ELSE 1
        period == row + skip
        last == n % period
        count == (n \div period) * row + (IF last < row THEN last ELSE row)
    IN  IF gen.error # <<>>
        THEN [ok |-> FALSE, error |-> gen.error[1]]
        ELSE IF last >= row
        THEN [ok |-> FALSE, error |-> "StopIteration"]
        ELSE [ok |-> TRUE,
              rgba |-> Flatten([k \in 1..count |->
                          gen.pixels[((k - 1) \div row) * period
                                     + ((k - 1) % row) + 1]])]

\* Form.to_array: (width, height, rgba), or the exception raised.
Form_to_array(form) ==
    LET skip == IF form.depth <= 8
                THEN LET pixels_per_word == 32 \div form.depth
                         pixels_in_last_word == form.width % pixels_per_word
                     IN  (pixels_per_word - pixels_in_last_word) % pixels_per_word
                ELSE 0
        res == to_array_loop(Form_to_pixels(form), form.width, skip)
    IN  IF res.ok
        THEN [ok |-> TRUE, width |-> form.width, height |-> form.height, rgba |-> res.rgba]
        ELSE res

\* The RGBA pixels a caller passes to from_array.
PixelVals ==
    { <<r, g, b, a>> : r \in ChannelVals, g \in ChannelVals, b \in ChannelVals,
                       a \in AlphaVals }

\* The (width, height, rgba) triples of at most n pixels whose array holds
\* width * height pixels.
ArrayInputs(n) ==
    { t \in { [width |-> w, height |-> h, rgba |-> Flatten(ps)] :
                w \in 0..n, h \in 0..n, ps \in SeqsUpTo(PixelVals, n) } :
        Len(t.rgba) = 4 * t.width * t.height }

\* A caller holds a pixel array of width * height pixels; no Form exists yet.
InitForm ==
    /\ f_px \in ArrayInputs(MaxPixels)
    /\ f_arr = f_px
    /\ f_form = <<>>
    /\ f_calls = 0
    /\ f_pc = "array"

\* The pixel engine is not in use.
IdleForm ==
    /\ f_px = <<>>
    /\ f_arr = <<>>
    /\ f_form = <<>>
    /\ f_calls = 0
    /\ f_pc = "idle"

\* Form.from_array(width, height, rgba) on the array in hand returns a Form.
FromArray ==
    /\ f_pc = "array"
    /\ f_calls < MaxCalls
    /\ Form_from_array(f_arr.width, f_arr.height, f_arr.rgba).ok
    /\ f_form' = <<Form_from_array(f_arr.width, f_arr.height, f_arr.rgba).form>>
    /\ f_calls' = f_calls + 1
    /\ f_pc' = "form"
    /\ UNCHANGED <<f_px, f_arr, c_vars, r_vars, d_vars, k_vars, p_vars, w_vars, m_vars, n_vars>>

\* form.to_array() returns the array the next from_array is given.
ToArray ==
    /\ f_pc = "form"
    /\ Form_to_array(f_form[1]).ok
    /\ f_arr' = Form_to_array(f_form[1])
    /\ f_pc' = "array"
    /\ UNCHANGED <<f_px, f_form, f_calls, c_vars, r_vars, d_vars, k_vars, p_vars, w_vars, m_vars, n_vars>>

(***************************************************************************)
(* Image decoder: Form.built and Form.to_array on a Form as parsed.         *)
(***************************************************************************)

\* Largest width of a parsed Form.
MaxWidth == 4

\* Largest height of a parsed Form.
MaxHeight == 2

\* Largest number of 32-bit words in the bits of a parsed Form.
MaxWords == 2

\* Number of built() calls in a run of the image decoder.
MaxBuilt == 2

\* The depths a parsed Form declares.
DepthVals == {1, 2, 4, 8, 16, 32}

\* The 32-bit words of pixel data: as depth-32 words (a, r, g, b) they are a
\* forgotten alpha, a transparent black and a real alpha; as depth-8 indices
\* the last one starts with an index beyond 191.
WordSamples == {<<0, 1, 0, 0>>, <<0, 0, 0, 0>>, <<200, 0, 0, 1>>}

\* The pixel bytes of a Bitmap: one byte, or at most n whole words.
BitsVals(n) == {<<128>>} \cup { Flatten(ws) : ws \in SeqsUpTo(WordSamples, n) }

\* The bytes of an as-parsed ByteArray: empty, a cut-off length prefix, a
\* word repeated 3 times, a byte repeated 4 times, one literal word.
ByteArrayVals ==
    {<<>>, <<224>>, <<3, 14, 0, 1, 0, 0>>, <<1, 5, 128>>, <<1, 7, 200, 0, 0, 1>>}

\* ByteArray(value).
ByteArray(value) == [cls |-> "ByteArray", value |-> value]

\* Color(r, g, b).
Color(r, g, b) == [cls |-> "Color", r |-> r, g |-> g, b |-> b]

\* TranslucentColor(r, g, b, alpha).
TranslucentColor(r, g, b, alpha) ==
    [cls |-> "TranslucentColor", r |-> r, g |-> g, b |-> b, alpha |-> alpha]

\* The colors of a parsed ColorForm: None (a plain Form), or a list of two
\* Colors / TranslucentColors.
PaletteVals ==
    {<<>>,
     << <<Color(1023, 0, 4), Color(7, 512, 1020)>> >>,
     << <<Color(1023, 0, 4), TranslucentColor(4, 8, 1023, 512)>> >>,
     << <<TranslucentColor(0, 0, 0, 1023), TranslucentColor(1023, 4, 0, 3)>> >>}

\* Form(**fields) / ColorForm(**fields) as from_value builds it from a
\* parsed Container: __dict__.update(fields) sets every field.
Form_from_value(width, height, depth, bits, colors) ==
    [Form(width, height, depth, bits) EXCEPT !.colors = colors]

\* The Forms the reader hands over: bits is a Bitmap, or still a ByteArray.
ParsedForms(w, h, n) ==
    { Form_from_value(width, height, depth, bits, colors) :
        width \in 0..w, height \in 0..h, depth \in DepthVals,
        bits \in { Bitmap(v) : v \in BitsVals(n) }
                 \cup { ByteArray(v) : v \in ByteArrayVals },
        colors \in PaletteVals }

\* built() with the isinstance test dropped: bits is decoded on every call.
Form_built_decodes_again(form) ==
    LET res == Bitmap_from_byte_array(form.bits.value)
    IN  IF res.ok
        THEN [ok |-> TRUE, form |-> [form EXCEPT !.bits = Bitmap(res.value)]]
        ELSE [ok |-> FALSE, error |-> res.error]

\* Form.built: a ByteArray bits is replaced by Bitmap.from_byte_array of its
\* value; then bits must be a Bitmap.
Form_built(form) ==
    IF form.bits.cls = "ByteArray"
    THEN LET res == Bitmap_from_byte_array(form.bits.value)
         IN  IF res.ok
             THEN [ok |-> TRUE, form |-> [form EXCEPT !.bits = Bitmap(res.value)]]
             ELSE [ok |-> FALSE, error |-> res.error]
    ELSE IF form.bits.cls = "Bitmap"
         THEN [ok |-> TRUE, form |-> form]
         ELSE [ok |-> FALSE, error |-> "AssertionError"]

\* The reader has parsed a Form; built() has not been called yet.
InitDecode ==
    /\ d_parsed \in ParsedForms(MaxWidth, MaxHeight, MaxWords)
    /\ d_form = d_parsed
    /\ d_built = 0
    /\ d_out = <<>>
    /\ d_pc = "form"

\* The image decoder is not in use.
IdleDecode ==
    /\ d_parsed = <<>>
    /\ d_form = <<>>
    /\ d_built = 0
    /\ d_out = <<>>
    /\ d_pc = "idle"

\* form.built() returns.
Built ==
    /\ d_pc = "form"
    /\ d_built < MaxBuilt
    /\ Form_built(d_form).ok
    /\ d_form' = Form_built(d_form).form
    /\ d_built' = d_built + 1
    /\ UNCHANGED <<d_parsed, d_out, d_pc, c_vars, r_vars, f_vars, k_vars, p_vars, w_vars, m_vars, n_vars>>

\* form.built() raises; bits is left as it was.
BuiltRaises ==
    /\ d_pc = "form"
    /\ ~Form_built(d_form).ok
    /\ d_out' = Form_built(d_form)
    /\ d_pc' = "built_raised"
    /\ UNCHANGED <<d_parsed, d_form, d_built, c_vars, r_vars, f_vars, k_vars, p_vars, w_vars, m_vars, n_vars>>

\* form.to_array() returns (width, height, rgba).
FormToArray ==
    /\ d_pc = "form"
    /\ Form_to_array(d_form).ok
    /\ d_out' = Form_to_array(d_form)
    /\ d_pc' = "array"
    /\ UNCHANGED <<d_parsed, d_form, d_built, c_vars, r_vars, f_vars, k_vars, p_vars, w_vars, m_vars, n_vars>>

\* form.to_array() raises.
FormToArrayRaises ==
    /\ d_pc = "form"
    /\ ~Form_to_array(d_form).ok
    /\ d_out' = Form_to_array(d_form)
    /\ d_pc' = "to_array_raised"
    /\ UNCHANGED <<d_parsed, d_form, d_built, c_vars, r_vars, f_vars, k_vars, p_vars, w_vars, m_vars, n_vars>>

(***************************************************************************)
(* Colours: TranslucentColor.from_32bit_raw_argb, Color.to_8bit.            *)
(***************************************************************************)

\* Values of the bytes of a raw (alpha, r, g, b) word.
RawByteVals == {0, 1, 10, 255}

\* Values of the 10-bit channels of a Color built directly.
TenBitVals == {0, 3, 4, 1023}

\* x << 2.
ShiftLeft2(x) == x * 4

\* from_32bit_raw_argb without the test for a forgotten alpha.
TranslucentColor_from_32bit_raw_argb_plain(raw) ==
    TranslucentColor(ShiftLeft2(raw[2]), ShiftLeft2(raw[3]), ShiftLeft2(raw[4]),
                     ShiftLeft2(raw[1]))

\* TranslucentColor.from_32bit_raw_argb: _construct_32 parses (alpha, r, g,
\* b); every part of (r, g, b, alpha) is shifted left by 2; alpha becomes
\* 1023 when it is 0 and r, g or b is above 0.
TranslucentColor_from_32bit_raw_argb(raw) ==
    LET container == [alpha |-> raw[1], r |-> raw[2], g |-> raw[3], b |-> raw[4]]
        parts == TranslucentColor(container.r, container.g, container.b,
                                  container.alpha)
        color == TranslucentColor(ShiftLeft2(parts.r), ShiftLeft2(parts.g),
                                  ShiftLeft2(parts.b), ShiftLeft2(parts.alpha))
    IN  IF color.alpha = 0 /\ (color.r > 0 \/ color.g > 0 \/ color.b > 0)
        THEN [color EXCEPT !.alpha = 1023]
        ELSE color

\* A caller holds 4 raw bytes, or a Color / TranslucentColor of its own.
InitColor ==
    \/ /\ k_raw \in [1..4 -> RawByteVals]
       /\ k_color = <<>>
       /\ k_out = <<>>
       /\ k_pc = "raw"
    \/ /\ k_raw = <<>>
       /\ k_color \in { Color(r, g, b) :
                          r \in TenBitVals, g \in TenBitVals, b \in TenBitVals }
                      \cup { TranslucentColor(r, g, b, a) :
                               r \in TenBitVals, g \in TenBitVals,
                               b \in TenBitVals, a \in TenBitVals }
       /\ k_out = <<>>
       /\ k_pc = "color"

\* The colour operations are not in use.
IdleColor ==
    /\ k_raw = <<>>
    /\ k_color = <<>>
    /\ k_out = <<>>
    /\ k_pc = "idle"

\* TranslucentColor.from_32bit_raw_argb(raw) returns a colour.
From32BitRawArgb ==
    /\ k_pc = "raw"
    /\ k_color' = TranslucentColor_from_32bit_raw_argb(k_raw)
    /\ k_pc' = "color"
    /\ UNCHANGED <<k_raw, k_out, c_vars, r_vars, f_vars, d_vars, p_vars, w_vars, m_vars, n_vars>>

\* color.to_8bit() returns a tuple.
To8Bit ==
    /\ k_pc = "color"
    /\ k_out' = Color_to_8bit(k_color)
    /\ k_pc' = "done"
    /\ UNCHANGED <<k_raw, k_color, c_vars, r_vars, f_vars, d_vars, p_vars, w_vars, m_vars, n_vars>>

(***************************************************************************)
(* PNG bridge: Form.save_png, Form.load_png.  The png module (pypng) is     *)
(* outside the repository: png is None when its import failed, a Reader's    *)
(* read_flat gives (width, height, flat array of values, metadata), and a   *)
(* Writer's write_array writes the array it is given.                       *)
(***************************************************************************)

\* Bit depths of the PNG files read.
BitDepthVals == {8, 16}

\* read_flat of the PNG files of at most n pixels: 3 values per pixel
\* without an alpha channel, 4 with one.
PngImages(n) ==
    { [width |-> w, height |-> h, color_array |-> Flatten(ps),
       bitdepth |-> bd, alpha |-> al] :
        w \in 1..n, h \in 1..n, bd \in BitDepthVals, al \in BOOLEAN,
        ps \in SeqsUpTo(PixelVals \cup { SubSeq(q, 1, 3) : q \in PixelVals }, n) }

\* The images whose array holds width * height pixels of the size the alpha
\* flag tells.
WellFormedPng(image) ==
    Len(image.color_array) =
        image.width * image.height * (IF image.alpha THEN 4 ELSE 3)

\* The loop of load_png: rgba_array += color_array[i:i+pixel_size], then,
\* without an alpha channel, rgba_array += 255, which adds an int to an
\* array and raises TypeError at the first pixel.
png_rows(color_array, alpha) ==
    IF alpha THEN [ok |-> TRUE, rgba_array |-> color_array]
    ELSE IF Len(color_array) = 0 THEN [ok |-> TRUE, rgba_array |-> <<>>]
    ELSE [ok |-> FALSE, error |-> "TypeError"]

\* Form.load_png: png.Reader on a None png raises AttributeError; a bit
\* depth other than 8 raises ValueError; then the loop and from_array.
Form_load_png(png, image) ==
    IF ~png THEN [ok |-> FALSE, error |-> "AttributeError"]
    ELSE IF image.bitdepth # 8 THEN [ok |-> FALSE, error |-> "ValueError"]
    ELSE LET rows == png_rows(image.color_array, image.alpha)
         IN  IF ~rows.ok THEN rows
             ELSE Form_from_array(image.width, image.height, rows.rgba_array)

\* Form.save_png: without png, ValueError before the file is opened;
\* otherwise open, to_array, write_array, flush, close.  files lists the
\* operations done on the file.
Form_save_png(png, form) ==
    IF ~png THEN [ok |-> FALSE, error |-> "ValueError", files |-> <<>>]
    ELSE LET res == Form_to_array(form)
         IN  IF ~res.ok
             THEN [ok |-> FALSE, error |-> res.error, files |-> <<"open">>]
             ELSE [ok |-> TRUE,
                   files |-> <<"open", <<"write_array", res.width, res.height, res.rgba>>,
                               "flush", "close">>]

\* The Forms save_png is called on: from_array of every array of at most n
\* pixels, and the same Forms declared with depth 16.
SavedForms(n) ==
    UNION { { Form_from_array(t.width, t.height, t.rgba).form,
              [Form_from_array(t.width, t.height, t.rgba).form EXCEPT !.depth = 16] } :
            t \in ArrayInputs(n) }

\* A caller is about to save a Form or to load a PNG file, with or without
\* the png module.
InitPng ==
    /\ p_png \in BOOLEAN
    /\ \/ /\ p_op = "save"
          /\ p_form \in SavedForms(MaxPixels)
          /\ p_image = <<>>
       \/ /\ p_op = "load"
          /\ p_form = <<>>
          /\ p_image \in { im \in PngImages(MaxPixels) : WellFormedPng(im) }
    /\ p_files = <<>>
    /\ p_out = <<>>
    /\ p_pc = "call"

\* The PNG bridge is not in use.
IdlePng ==
    /\ p_png = FALSE
    /\ p_op = "idle"
    /\ p_form = <<>>
    /\ p_image = <<>>
    /\ p_files = <<>>
    /\ p_out = <<>>
    /\ p_pc = "idle"

\* form.save_png(path) returns.
SavePng ==
    /\ p_pc = "call"
    /\ p_op = "save"
    /\ Form_save_png(p_png, p_form).ok
    /\ p_files' = Form_save_png(p_png, p_form).files
    /\ p_out' = [ok |-> TRUE]
    /\ p_pc' = "returned"
    /\ UNCHANGED <<p_png, p_op, p_form, p_image, c_vars, r_vars, f_vars, d_vars, k_vars, w_vars, m_vars, n_vars>>

\* form.save_png(path) raises.
SavePngRaises ==
    /\ p_pc = "call"
    /\ p_op = "save"
    /\ ~Form_save_png(p_png, p_form).ok
    /\ p_files' = Form_save_png(p_png, p_form).files
    /\ p_out' = [ok |-> FALSE, error |-> Form_save_png(p_png, p_form).error]
    /\ p_pc' = "raised"
    /\ UNCHANGED <<p_png, p_op, p_form, p_image, c_vars, r_vars, f_vars, d_vars, k_vars, w_vars, m_vars, n_vars>>

\* Form.load_png(path) returns a Form.
LoadPng ==
    /\ p_pc = "call"
    /\ p_op = "load"
    /\ Form_load_png(p_png, p_image).ok
    /\ p_out' = Form_load_png(p_png, p_image)
    /\ p_pc' = "returned"
    /\ UNCHANGED <<p_png, p_op, p_form, p_image, p_files, c_vars, r_vars, f_vars, d_vars, k_vars, w_vars, m_vars, n_vars>>

\* Form.load_png(path) raises.
LoadPngRaises ==
    /\ p_pc = "call"
    /\ p_op = "load"
    /\ ~Form_load_png(p_png, p_image).ok
    /\ p_out' = Form_load_png(p_png, p_image)
    /\ p_pc' = "raised"
    /\ UNCHANGED <<p_png, p_op, p_form, p_image, p_files, c_vars, r_vars, f_vars, d_vars, k_vars, w_vars, m_vars, n_vars>>

(***************************************************************************)
(* Wire codec: the _construct of Color, TranslucentColor and Bitmap (raw    *)
(* form), with to_value / from_value around it; the ContainsRefs marker.    *)
(***************************************************************************)

\* Largest length of the value of a Bitmap that is encoded.
MaxBytes == 5

\* The bytes the value of an encoded Bitmap is made of.
RawVals == {0, 7}

\* The n bits of x, most significant first (construct's Bits field).
to_bits(x, n) == [i \in 1..n |-> (x \div Pow2(n - i)) % 2]

\* The integer whose bits, most significant first, are bs.
RECURSIVE from_bits(_)
from_bits(bs) ==
    IF bs = <<>> THEN 0
    ELSE 2 * from_bits(SubSeq(bs, 1, Len(bs) - 1)) + bs[Len(bs)]

\* BitStruct: the bytes of a stream as bits, and back.
bytes_to_bits(s) == Flatten([i \in 1..Len(s) |-> to_bits(s[i], 8)])

bits_to_bytes(bits) ==
    [i \in 1..(Len(bits) \div 8) |-> from_bits(SubSeq(bits, 8 * i - 7, 8 * i))]

\* Color._construct built with the padding after the channels.
Color_construct_build_padding_last(value) ==
    bits_to_bytes(to_bits(value.r, 10) \o to_bits(value.g, 10)
                  \o to_bits(value.b, 10) \o <<0, 0>>)

\* Color._construct.build: Padding(2), Bits r, g, b of 10 bits each.
Color_construct_build(value) ==
    bits_to_bytes(<<0, 0>> \o to_bits(value.r, 10) \o to_bits(value.g, 10)
                  \o to_bits(value.b, 10))

\* Color._construct.parse of the 4 bytes from pos on: the padding bits are
\* skipped, whatever they are.
Color_construct_parse(s, pos) ==
    LET bits == bytes_to_bits(SubSeq(s, pos, pos + 3))
    IN  [r |-> from_bits(SubSeq(bits, 3, 12)),
         g |-> from_bits(SubSeq(bits, 13, 22)),
         b |-> from_bits(SubSeq(bits, 23, 32))]

\* UBInt8.build: struct.pack(">B", x).  Out of 0..255, Python 2.7 raises
\* struct.error (construct's FieldError); older Python 2 warns and keeps the
\* low 8 bits.  The set of results the build can give.
UBInt8_build(x) ==
    IF x \in 0..255 THEN {[ok |-> TRUE, bytes |-> <<x>>]}
    ELSE {[ok |-> FALSE, error |-> "FieldError"],
          [ok |-> TRUE, bytes |-> <<x % 256>>]}

\* UBInt32.build: 4 bytes, big-endian.
UBInt32_build(x) ==
    <<(x \div 16777216) % 256, (x \div 65536) % 256, (x \div 256) % 256, x % 256>>

\* TranslucentColor._construct.build: Embed(Color._construct), UBInt8 alpha.
TranslucentColor_construct_build(value) ==
    { IF a.ok THEN [ok |-> TRUE, bytes |-> Color_construct_build(value) \o a.bytes]
      ELSE a : a \in UBInt8_build(value.alpha) }

\* TranslucentColor._construct.parse.
TranslucentColor_construct_parse(s) ==
    LET rgb == Color_construct_parse(s, 1)
    IN  [r |-> rgb.r, g |-> rgb.g, b |-> rgb.b, alpha |-> s[5]]

\* Bitmap.to_value: Container(items = value, length = (len(value) + 2) / 4).
Bitmap_to_value(value) == [items |-> value, length |-> (Len(value) + 2) \div 4]

\* construct.String(length * 4, padchar "\x00", paddir "right").build: the
\* string is padded on the right to the size, and cut to it when longer.
String_build(items, size) ==
    IF Len(items) >= size THEN SubSeq(items, 1, size)
    ELSE items \o Repeat(<<0>>, size - Len(items))

\* The same String parsed: the pad characters on the right are stripped.
RECURSIVE String_parse(_)
String_parse(raw) ==
    IF raw # <<>> /\ raw[Len(raw)] = 0
    THEN String_parse(SubSeq(raw, 1, Len(raw) - 1))
    ELSE raw

\* Bitmap._construct.build: UBInt32 length, then the items.
Bitmap_construct_build(value) ==
    UBInt32_build(value.length) \o String_build(value.items, value.length * 4)

\* Bitmap._construct.parse.
Bitmap_construct_parse(s) ==
    LET length == UBInt32(s, 1)
    IN  [length |-> length,
         items |-> String_parse(SubSeq(s, 5, 4 + 4 * length))]

\* cls._construct.build(obj.to_value()): the set of results.
construct_build(obj) ==
    CASE obj.cls = "Color" ->
           {[ok |-> TRUE, bytes |-> Color_construct_build([r |-> obj.r, g |-> obj.g, b |-> obj.b])]}
      [] obj.cls = "TranslucentColor" ->
           TranslucentColor_construct_build(
               [r |-> obj.r, g |-> obj.g, b |-> obj.b, alpha |-> obj.alpha])
      [] obj.cls = "Bitmap" ->
           {[ok |-> TRUE, bytes |-> Bitmap_construct_build(Bitmap_to_value(obj.value))]}

\* cls.from_value(cls._construct.parse(bytes)).
construct_parse(cls, s) ==
    CASE cls = "Color" ->
           LET v == Color_construct_parse(s, 1) IN Color(v.r, v.g, v.b)
      [] cls = "TranslucentColor" ->
           LET v == TranslucentColor_construct_parse(s)
           IN  TranslucentColor(v.r, v.g, v.b, v.alpha)
      [] cls = "Bitmap" -> Bitmap(Bitmap_construct_parse(s).items)

\* The base classes of every class of fixed_objects.py, as declared.
class_bases ==
    [c \in {"FixedObject", "ContainsRefs", "FixedObjectWithRepeater",
            "FixedObjectByteArray", "String", "Symbol", "ByteArray",
            "SoundBuffer", "UTF8", "Collection", "Array", "OrderedCollection",
            "Set", "IdentitySet", "Dictionary", "IdentityDictionary", "Color",
            "TranslucentColor", "Point", "Rectangle", "Bitmap", "Form",
            "ColorForm"} |->
        CASE c \in {"FixedObject", "ContainsRefs"} -> {}
          [] c \in {"FixedObjectWithRepeater", "FixedObjectByteArray", "Color",
                    "Point", "Rectangle"} -> {"FixedObject"}
          [] c \in {"String", "Symbol", "ByteArray", "UTF8"} -> {"FixedObjectByteArray"}
          [] c \in {"SoundBuffer", "Bitmap"} ->
               {"FixedObjectByteArray", "FixedObjectWithRepeater"}
          [] c = "Collection" -> {"FixedObjectWithRepeater", "ContainsRefs"}
          [] c \in {"Array", "OrderedCollection", "Set", "IdentitySet", "Dictionary"} ->
               {"Collection"}
          [] c = "IdentityDictionary" -> {"Dictionary"}
          [] c = "TranslucentColor" -> {"Color"}
          [] c = "Form" -> {"FixedObject", "ContainsRefs"}
          [] c = "ColorForm" -> {"Form"}]

\* issubclass(c, base).
RECURSIVE issubclass(_, _)
issubclass(c, base) ==
    c = base \/ \E b \in class_bases[c] : issubclass(b, base)

\* The classes with a classID: the kinds of object of the wire format.
Kinds ==
    {"String", "Symbol", "ByteArray", "SoundBuffer", "Bitmap", "UTF8", "Array",
     "OrderedCollection", "Set", "IdentitySet", "Dictionary",
     "IdentityDictionary", "Color", "TranslucentColor", "Point", "Rectangle",
     "Form", "ColorForm"}

\* The kinds whose _construct holds Field elements.
FieldKinds ==
    {"Array", "OrderedCollection", "Set", "IdentitySet", "Dictionary",
     "IdentityDictionary", "Point", "Rectangle", "Form", "ColorForm"}

\* The objects that are encoded: Colors and TranslucentColors over the
\* 10-bit values, and Bitmaps of at most n bytes.
WireObjects(n) ==
    { Color(r, g, b) : r \in TenBitVals, g \in TenBitVals, b \in TenBitVals }
    \cup { TranslucentColor(r, g, b, a) :
             r \in {0, 1023}, g \in {0, 4}, b \in {3, 1023},
             a \in {0, 255, 256, 1020, 1023} }
    \cup { Bitmap(v) : v \in SeqsUpTo(RawVals, n) }

\* An object is about to be encoded, or the reader is about to ask whether
\* the objects of a kind can hold references.
InitWire ==
    /\ \/ /\ w_obj \in WireObjects(MaxBytes)
          /\ w_kind = <<>>
          /\ w_pc = "object"
       \/ /\ w_obj = <<>>
          /\ w_kind \in { <<c>> : c \in Kinds }
          /\ w_pc = "kind"
    /\ w_wire = <<>>
    /\ w_back = <<>>
    /\ w_marked = <<>>

\* The wire codec is not in use.
IdleWire ==
    /\ w_obj = <<>>
    /\ w_wire = <<>>
    /\ w_back = <<>>
    /\ w_kind = <<>>
    /\ w_marked = <<>>
    /\ w_pc = "idle"

\* _construct.build(obj.to_value()) returns the bytes.
Build ==
    /\ w_pc = "object"
    /\ \E res \in construct_build(w_obj) :
         /\ res.ok
         /\ w_wire' = res
    /\ w_pc' = "built"
    /\ UNCHANGED <<w_obj, w_back, w_kind, w_marked, c_vars, r_vars, f_vars, d_vars, k_vars, p_vars, m_vars, n_vars>>

\* _construct.build(obj.to_value()) raises.
BuildRaises ==
    /\ w_pc = "object"
    /\ \E res \in construct_build(w_obj) :
         /\ ~res.ok
         /\ w_wire' = res
    /\ w_pc' = "build_raised"
    /\ UNCHANGED <<w_obj, w_back, w_kind, w_marked, c_vars, r_vars, f_vars, d_vars, k_vars, p_vars, m_vars, n_vars>>

\* cls.from_value(cls._construct.parse(bytes)) on the bytes built.
Parse ==
    /\ w_pc = "built"
    /\ w_back' = construct_parse(w_obj.cls, w_wire.bytes)
    /\ w_pc' = "parsed"
    /\ UNCHANGED <<w_obj, w_wire, w_kind, w_marked, c_vars, r_vars, f_vars, d_vars, k_vars, p_vars, m_vars, n_vars>>

\* The reader evaluates issubclass(kind, ContainsRefs).
AskMarker ==
    /\ w_pc = "kind"
    /\ w_marked' = <<issubclass(w_kind[1], "ContainsRefs")>>
    /\ w_pc' = "asked"
    /\ UNCHANGED <<w_obj, w_wire, w_back, w_kind, c_vars, r_vars, f_vars, d_vars, k_vars, p_vars, m_vars, n_vars>>

(***************************************************************************)
(* Media dictionaries: NamedObject, MediaDict and OrderedMediaDict of       *)
(* kurt/__init__.py.  One MediaDict ("md") and one OrderedMediaDict ("od")  *)
(* share the NamedObjects.  A method is an operator from the heap S to the  *)
(* heap it leaves; S.err holds the exception that is propagating, and a     *)
(* method called while one propagates does nothing.                         *)
(***************************************************************************)

\* Number of NamedObjects.
NumObjects == 2

\* Number of operations in a run.
MaxOps == 3

\* The names given to objects and used as keys.
Names == {"a", "b"}

\* The NamedObjects o1 .. oN.
Objects(n) == { <<"o", i>> : i \in 1..n }

\* unicode(x) of a name or None.
unicode(x) == IF x = <<>> THEN "None" ELSE x[1]

\* raise e.
Raise(S, e) == IF S.err # <<>> THEN S ELSE [S EXCEPT !.err = <<e>>]

\* self._objects.keys().
dict_keys(S, d) ==
    IF d = "md" THEN DOMAIN S.md ELSE { S.od[i][1] : i \in 1..Len(S.od) }

\* self._objects[k], for a key that is present.
dict_get(S, d, k) ==
    IF d = "md" THEN S.md[k]
    ELSE S.od[CHOOSE i \in 1..Len(S.od) : S.od[i][1] = k][2]

\* self._objects.values().
dict_values(S, d) == { dict_get(S, d, k) : k \in dict_keys(S, d) }

\* MediaDict.__len__, which is also the truth value of the dict.
MediaDict_len(S, d) == Cardinality(dict_keys(S, d))

\* self._objects[k] = o: a dict replaces or adds the entry, an OrderedDict
\* replaces the value in place or appends the entry.
dict_store(S, d, k, o) ==
    IF S.err # <<>> THEN S
    ELSE IF d = "md"
    THEN [S EXCEPT !.md = [x \in DOMAIN S.md \cup {k} |-> IF x = k THEN o ELSE S.md[x]]]
    ELSE IF k \in dict_keys(S, d)
    THEN [S EXCEPT !.od = [i \in 1..Len(S.od) |->
                              IF S.od[i][1] = k THEN <<k, o>> ELSE S.od[i]]]
    ELSE [S EXCEPT !.od = Append(S.od, <<k, o>>)]

\* MediaDict.__delitem__ and OrderedMediaDict.__delitem__ by name:
\* del self._objects[unicode(name)], KeyError when the key is missing.
MediaDict_delitem(S, d, name) ==
    LET k == unicode(name)
    IN  IF S.err # <<>> THEN S
        ELSE IF k \notin dict_keys(S, d) THEN Raise(S, "KeyError")
        ELSE IF d = "md"
        THEN [S EXCEPT !.md = [x \in DOMAIN S.md \ {k} |-> S.md[x]]]
        ELSE [S EXCEPT !.od = SelectSeq(S.od, LAMBDA e : e[1] # k)]

\* MediaDict.remove(obj): del self[obj.name].
MediaDict_remove(S, d, o) == MediaDict_delitem(S, d, S.name[o])

\* NamedObject._set_dict(new_dict).
NamedObject_set_dict(S, o, d) ==
    IF S.err # <<>> \/ S.mdict[o] = <<d>> THEN S
    ELSE LET S1 == IF S.mdict[o] # <<>> /\ MediaDict_len(S, S.mdict[o][1]) > 0
                   THEN MediaDict_remove(S, S.mdict[o][1], o)
                   ELSE S
         IN  IF S1.err # <<>> THEN S1 ELSE [S1 EXCEPT !.mdict[o] = <<d>>]

\* OrderedDict(pairs): a key that comes again keeps its first place and
\* takes the later value.
RECURSIVE OrderedDict(_)
OrderedDict(pairs) ==
    IF pairs = <<>> THEN <<>>
    ELSE LET front == OrderedDict(SubSeq(pairs, 1, Len(pairs) - 1))
             last == pairs[Len(pairs)]
         IN  IF \E i \in 1..Len(front) : front[i][1] = last[1]
             THEN [i \in 1..Len(front) |->
                      IF front[i][1] = last[1] THEN last ELSE front[i]]
             ELSE Append(front, last)

RECURSIVE NamedObject_name_set(_, _, _)
RECURSIVE MediaDict_rename(_, _, _, _)
RECURSIVE MediaDict_setitem(_, _, _, _)

\* The setter of NamedObject.name.
NamedObject_name_set(S, o, new_name) ==
    IF S.err # <<>> \/ S.name[o] = new_name THEN S
    ELSE LET old_name == S.name[o]
             S1 == [S EXCEPT !.name[o] = <<unicode(new_name)>>]
         IN  IF S1.mdict[o] # <<>> /\ MediaDict_len(S1, S1.mdict[o][1]) > 0
             THEN MediaDict_rename(S1, S1.mdict[o][1], old_name, new_name)
             ELSE S1

\* MediaDict._rename: self[new_name] = self[old_name]; del self[old_name].
\* OrderedMediaDict._rename: the OrderedDict is built again with the key
\* replaced.
MediaDict_rename(S, d, old_name, new_name) ==
    IF S.err # <<>> THEN S
    ELSE IF d = "md"
    THEN IF unicode(old_name) \notin dict_keys(S, d) THEN Raise(S, "KeyError")
         ELSE MediaDict_delitem(
                  MediaDict_setitem(S, d, new_name, dict_get(S, d, unicode(old_name))),
                  d, old_name)
    ELSE [S EXCEPT !.od = OrderedDict([i \in 1..Len(S.od) |->
                              IF <<S.od[i][1]>> = old_name
                              THEN <<unicode(new_name), S.od[i][2]>>
                              ELSE S.od[i]])]

\* MediaDict.__setitem__(name, obj), and OrderedMediaDict.__setitem__ by
\* name, which does not call obj._set_dict.
MediaDict_setitem(S, d, name, o) ==
    IF S.err # <<>> THEN S
    ELSE IF d = "md"
    THEN LET S1 == NamedObject_set_dict(S, o, d)
             S2 == NamedObject_name_set(S1, o, <<unicode(name)>>)
         IN  dict_store(S2, d, unicode(name), o)
    ELSE LET S1 == NamedObject_name_set(S, o, <<unicode(name)>>)
         IN  dict_store(S1, d, unicode(name), o)

\* MediaDict.add(obj).
MediaDict_add(S, d, o) ==
    LET name == S.name[o]
        S1 == IF unicode(name) \in dict_keys(S, d)
              THEN MediaDict_delitem(S, d, name)
              ELSE S
    IN  MediaDict_setitem(S1, d, S1.name[o], o)

\* The heap of the state.
Heap == [name |-> m_name, mdict |-> m_dict, md |-> m_md, od |-> m_od, err |-> <<>>]

\* The two dictionaries.
Dicts == {"md", "od"}

\* MediaDict() and OrderedMediaDict() are empty; every NamedObject has the
\* name its constructor gave it, or None, and belongs to no dictionary.
InitMedia ==
    /\ m_name \in [Objects(NumObjects) -> {<<>>} \cup { <<n>> : n \in Names }]
    /\ m_dict = [o \in Objects(NumObjects) |-> <<>>]
    /\ m_md = <<>>
    /\ m_od = <<>>
    /\ m_op = <<>>
    /\ m_pre = <<>>
    /\ m_out = <<>>
    /\ m_raised = FALSE
    /\ m_steps = 0

\* The media dictionaries are not in use.
IdleMedia ==
    /\ m_name = <<>>
    /\ m_dict = <<>>
    /\ m_md = <<>>
    /\ m_od = <<>>
    /\ m_op = <<>>
    /\ m_pre = <<>>
    /\ m_out = <<>>
    /\ m_raised = FALSE
    /\ m_steps = -1

\* d.add(obj).  What the call wrote stays, raised or not.
Add ==
    \E d \in Dicts, o \in Objects(NumObjects) :
        LET S == MediaDict_add(Heap, d, o)
        IN  /\ m_steps \in 0..(MaxOps - 1)
            /\ m_steps' = m_steps + 1
            /\ m_name' = S.name
            /\ m_dict' = S.mdict
            /\ m_md' = S.md
            /\ m_od' = S.od
            /\ m_op' = [op |-> "add", d |-> <<d>>, o |-> o, name |-> <<>>]
            /\ m_pre' = Heap
            /\ m_out' = IF S.err = <<>> THEN "ok" ELSE S.err[1]
            /\ m_raised' = (m_raised \/ S.err # <<>>)
            /\ UNCHANGED <<c_vars, r_vars, f_vars, d_vars, k_vars, p_vars, w_vars, n_vars>>

\* d[name] = obj.  What the call wrote stays, raised or not.
SetItem ==
    \E d \in Dicts, o \in Objects(NumObjects), n \in Names :
        LET S == MediaDict_setitem(Heap, d, <<n>>, o)
        IN  /\ m_steps \in 0..(MaxOps - 1)
            /\ m_steps' = m_steps + 1
            /\ m_name' = S.name
            /\ m_dict' = S.mdict
            /\ m_md' = S.md
            /\ m_od' = S.od
            /\ m_op' = [op |-> "setitem", d |-> <<d>>, o |-> o, name |-> <<n>>]
            /\ m_pre' = Heap
            /\ m_out' = IF S.err = <<>> THEN "ok" ELSE S.err[1]
            /\ m_raised' = (m_raised \/ S.err # <<>>)
            /\ UNCHANGED <<c_vars, r_vars, f_vars, d_vars, k_vars, p_vars, w_vars, n_vars>>

\* d.remove(obj).  What the call wrote stays, raised or not.
Remove ==
    \E d \in Dicts, o \in Objects(NumObjects) :
        LET S == MediaDict_remove(Heap, d, o)
        IN  /\ m_steps \in 0..(MaxOps - 1)
            /\ m_steps' = m_steps + 1
            /\ m_name' = S.name
            /\ m_dict' = S.mdict
            /\ m_md' = S.md
            /\ m_od' = S.od
            /\ m_op' = [op |-> "remove", d |-> <<d>>, o |-> o, name |-> <<>>]
            /\ m_pre' = Heap
            /\ m_out' = IF S.err = <<>> THEN "ok" ELSE S.err[1]
            /\ m_raised' = (m_raised \/ S.err # <<>>)
            /\ UNCHANGED <<c_vars, r_vars, f_vars, d_vars, k_vars, p_vars, w_vars, n_vars>>

\* obj.name = name.  What the call wrote stays, raised or not.
Rename ==
    \E o \in Objects(NumObjects), n \in Names :
        LET S == NamedObject_name_set(Heap, o, <<n>>)
        IN  /\ m_steps \in 0..(MaxOps - 1)
            /\ m_steps' = m_steps + 1
            /\ m_name' = S.name
            /\ m_dict' = S.mdict
            /\ m_md' = S.md
            /\ m_od' = S.od
            /\ m_op' = [op |-> "rename", d |-> <<>>, o |-> o, name |-> <<n>>]
            /\ m_pre' = Heap
            /\ m_out' = IF S.err = <<>> THEN "ok" ELSE S.err[1]
            /\ m_raised' = (m_raised \/ S.err # <<>>)
            /\ UNCHANGED <<c_vars, r_vars, f_vars, d_vars, k_vars, p_vars, w_vars, n_vars>>

(***************************************************************************)
(* Project: Project._normalize of kurt/__init__.py with Scriptable,         *)
(* Sprite and Watcher._normalize.  An actor is <<"sprite", i>> or the       *)
(* watcher <<"variable", id>> or <<"list", id>> of a variable or a list;    *)
(* an owner of variables and lists is the project, the stage or a sprite.   *)
(* Names are distinct, and a MediaDict iterates in the order of the ids.    *)
(***************************************************************************)

\* Number of sprites.
NumSprites == 1

\* Number of _normalize calls in a run.
MaxNormalize == 2

\* The project, the stage and the sprites.
Owners(n) == {<<"project", 0>>, <<"stage", 0>>} \cup { <<"sprite", i>> : i \in 1..n }

\* The id of the variable and of the list an owner starts with.
OwnId(owner) ==
    IF owner[1] = "project" THEN 1 ELSE IF owner[1] = "stage" THEN 2 ELSE 2 + owner[2]

\* sorted(self._objects.values(), key = name) of MediaDict.__iter__.
RECURSIVE Sorted(_)
Sorted(ids) ==
    IF ids = {} THEN <<>>
    ELSE LET least == CHOOSE x \in ids : \A y \in ids : x <= y
         IN  <<least>> \o Sorted(ids \ {least})

\* x in a list.
InList(x, list) == \E i \in 1..Len(list) : list[i] = x

\* for v in data: if v.watcher.visible: actors.append(v.watcher),
\* for the variables (kind "variable") or the lists (kind "list") of owner.
append_visible(P, kind, owner) ==
    LET data == IF kind = "variable" THEN P.variables[owner] ELSE P.lists[owner]
        watchers == [i \in 1..Cardinality(data) |-> <<kind, Sorted(data)[i]>>]
    IN  [P EXCEPT !.actors = P.actors \o SelectSeq(watchers, LAMBDA w : w \in P.visible)]

\* Scriptable._normalize.
Scriptable_normalize(P, owner) ==
    LET P1 == append_visible(append_visible(P, "variable", owner), "list", owner)
    IN  IF owner[1] = "sprite"
        THEN [P1 EXCEPT !.costume[owner[2]] =
                 IF @.costume THEN [costume |-> TRUE, costumes |-> TRUE]
                 ELSE [costume |-> @.costumes, costumes |-> @.costumes]]
        ELSE P1

\* Sprite._normalize: ValueError when the sprite has no costume.
Sprite_normalize(P, i) ==
    LET P1 == Scriptable_normalize(P, <<"sprite", i>>)
    IN  IF P1.costume[i].costume THEN P1 ELSE [P1 EXCEPT !.err = <<"ValueError">>]

\* Watcher._normalize: a watcher with a project appends itself to actors
\* when it is not there.
Watcher_normalize(P, w) ==
    IF w \in P.project /\ ~InList(w, P.actors)
    THEN [P EXCEPT !.actors = Append(@, w)]
    ELSE P

\* for actor in self.actors: actor._normalize(), from index i on; the list
\* may grow while it is walked.
RECURSIVE normalize_actors(_, _)
normalize_actors(P, i) ==
    IF P.err # <<>> \/ i > Len(P.actors) THEN P
    ELSE LET actor == P.actors[i]
         IN  normalize_actors(IF actor[1] = "sprite"
                              THEN Sprite_normalize(P, actor[2])
                              ELSE Watcher_normalize(P, actor),
                              i + 1)

\* for sprite in self.sprites: if sprite not in self.actors: append.
RECURSIVE sync_actors(_, _)
sync_actors(P, i) ==
    IF i > Len(P.sprites) THEN P
    ELSE sync_actors(IF InList(<<"sprite", P.sprites[i]>>, P.actors) THEN P
                     ELSE [P EXCEPT !.actors = Append(@, <<"sprite", P.sprites[i]>>)],
                     i + 1)

\* for actor in self.actors: a Sprite not in self.sprites is added to it;
\* actor.project = self.
RECURSIVE sync_sprites(_, _)
sync_sprites(P, i) ==
    IF i > Len(P.actors) THEN P
    ELSE LET actor == P.actors[i]
             P1 == IF actor[1] = "sprite" /\ ~InList(actor[2], P.sprites)
                   THEN [P EXCEPT !.sprites = Append(@, actor[2])]
                   ELSE P
         IN  sync_sprites([P1 EXCEPT !.project = @ \cup {actor}], i + 1)

\* The end of Project._normalize: with a plugin without stage-specific
\* variables, the variables and lists of the stage become global.
globalize(P) ==
    IF P.err # <<>> \/ P.plugin # "global_variables" THEN P
    ELSE [P EXCEPT
            !.variables = [@ EXCEPT ![<<"project", 0>>] = @ \cup P.variables[<<"stage", 0>>],
                                    ![<<"stage", 0>>] = {}],
            !.lists = [@ EXCEPT ![<<"project", 0>>] = @ \cup P.lists[<<"stage", 0>>],
                                ![<<"stage", 0>>] = {}]]

\* Project._normalize.
Project_normalize(P) ==
    LET P1 == append_visible(append_visible(P, "variable", <<"project", 0>>),
                             "list", <<"project", 0>>)
        P2 == sync_sprites(sync_actors(P1, 1), 1)
        P3 == Scriptable_normalize(P2, <<"stage", 0>>)
    IN  globalize(normalize_actors(P3, 1))

\* The project of the state.
TheProject ==
    [actors |-> n_actors, sprites |-> n_sprites, variables |-> n_variables,
     lists |-> n_lists, visible |-> n_visible, costume |-> n_costume,
     plugin |-> n_plugin, project |-> n_project, err |-> <<>>]

\* A project as a loader or a caller has filled it: every owner has at most
\* one variable and one list, watchers are visible or not, every sprite is
\* in sprites, in actors or in both, and actors holds nothing twice.
InitProject ==
    /\ n_variables \in { f \in [Owners(NumSprites) -> SUBSET (1..(2 + NumSprites))] :
                           \A o \in Owners(NumSprites) : f[o] \subseteq {OwnId(o)} }
    /\ n_lists \in { f \in [Owners(NumSprites) -> SUBSET (1..(2 + NumSprites))] :
                       \A o \in Owners(NumSprites) : f[o] \subseteq {OwnId(o)} }
    /\ n_visible \in { V \in SUBSET ({"variable", "list"} \X (1..(2 + NumSprites))) :
                         /\ \A w \in V : \E o \in Owners(NumSprites) :
                              w[2] \in (IF w[1] = "variable" THEN n_variables[o] ELSE n_lists[o])
                         /\ \A o \in Owners(NumSprites) : \A id \in n_lists[o] :
                              <<"list", id>> \in V }
    /\ \E inSprites \in SUBSET (1..NumSprites), inActors \in SUBSET (1..NumSprites) :
         /\ inSprites \cup inActors = 1..NumSprites
         /\ n_sprites = Sorted(inSprites)
         /\ n_actors = [i \in 1..Cardinality(inActors) |-> <<"sprite", Sorted(inActors)[i]>>]
    /\ n_costume \in [1..NumSprites ->
                        {[costume |-> FALSE, costumes |-> FALSE],
                         [costume |-> FALSE, costumes |-> TRUE],
                         [costume |-> TRUE, costumes |-> TRUE]}]
    /\ n_plugin \in {"none", "stage_variables", "global_variables"}
    /\ n_project = {}
    /\ n_prev = <<>>
    /\ n_out = <<>>
    /\ n_calls = 0

\* No project is in use.
IdleProject ==
    /\ n_actors = <<>>
    /\ n_sprites = <<>>
    /\ n_variables = <<>>
    /\ n_lists = <<>>
    /\ n_visible = {}
    /\ n_costume = <<>>
    /\ n_plugin = "none"
    /\ n_project = {}
    /\ n_prev = <<>>
    /\ n_out = <<>>
    /\ n_calls = -1

\* project._normalize() returns.
Normalize ==
    LET P == Project_normalize(TheProject)
    IN  /\ n_calls \in 0..(MaxNormalize - 1)
        /\ P.err = <<>>
        /\ n_calls' = n_calls + 1
        /\ n_actors' = P.actors
        /\ n_sprites' = P.sprites
        /\ n_variables' = P.variables
        /\ n_lists' = P.lists
        /\ n_costume' = P.costume
        /\ n_project' = P.project
        /\ n_prev' = <<n_actors>>
        /\ n_out' = "ok"
        /\ UNCHANGED <<n_visible, n_plugin, c_vars, r_vars, f_vars, d_vars, k_vars, p_vars, w_vars, m_vars>>

\* project._normalize() raises: a sprite has no costume.  What the call
\* wrote before stays.
NormalizeRaises ==
    LET P == Project_normalize(TheProject)
    IN  /\ n_calls \in 0..(MaxNormalize - 1)
        /\ P.err # <<>>
        /\ n_calls' = n_calls + 1
        /\ n_actors' = P.actors
        /\ n_sprites' = P.sprites
        /\ n_variables' = P.variables
        /\ n_lists' = P.lists
        /\ n_costume' = P.costume
        /\ n_project' = P.project
        /\ n_prev' = <<n_actors>>
        /\ n_out' = P.err[1]
        /\ UNCHANGED <<n_visible, n_plugin, c_vars, r_vars, f_vars, d_vars, k_vars, p_vars, w_vars, m_vars>>

(***************************************************************************)
(* Specifications.                                                          *)
(***************************************************************************)

\* A parsed Container awaits from_value; the other components are idle.
InitContainerCodec ==
    InitContainer /\ IdleRLE /\ IdleForm /\ IdleDecode /\ IdleColor /\ IdlePng /\ IdleWire /\ IdleMedia /\ IdleProject

NextContainer == FromValue \/ FromValueRaises \/ ToValue

SpecContainer == InitContainerCodec /\ [][NextContainer]_vars

\* A byte string awaits from_byte_array; the other components are idle.
InitRLECodec ==
    IdleContainer /\ InitRLE /\ IdleForm /\ IdleDecode /\ IdleColor /\ IdlePng /\ IdleWire /\ IdleMedia /\ IdleProject

NextRLE == FromByteArray \/ FromByteArrayRaises

SpecRLE == InitRLECodec /\ [][NextRLE]_vars

\* A pixel array awaits from_array; the other components are idle.
InitPixelEngine ==
    IdleContainer /\ IdleRLE /\ InitForm /\ IdleDecode /\ IdleColor /\ IdlePng /\ IdleWire /\ IdleMedia /\ IdleProject

NextForm == FromArray \/ ToArray

SpecForm == InitPixelEngine /\ [][NextForm]_vars

\* A parsed Form awaits built() and to_array(); the other components are idle.
InitImageDecoder ==
    IdleContainer /\ IdleRLE /\ IdleForm /\ InitDecode /\ IdleColor /\ IdlePng /\ IdleWire /\ IdleMedia /\ IdleProject

NextDecode == Built \/ BuiltRaises \/ FormToArray \/ FormToArrayRaises

SpecDecode == InitImageDecoder /\ [][NextDecode]_vars

\* Raw bytes or a colour await conversion; the other components are idle.
InitColors ==
    IdleContainer /\ IdleRLE /\ IdleForm /\ IdleDecode /\ InitColor /\ IdlePng /\ IdleWire /\ IdleMedia /\ IdleProject

NextColor == From32BitRawArgb \/ To8Bit

SpecColor == InitColors /\ [][NextColor]_vars

\* A save_png or load_png call is about to be made; the rest is idle.
InitPngBridge ==
    IdleContainer /\ IdleRLE /\ IdleForm /\ IdleDecode /\ IdleColor /\ InitPng /\ IdleWire /\ IdleMedia /\ IdleProject

NextPng == SavePng \/ SavePngRaises \/ LoadPng \/ LoadPngRaises

SpecPng == InitPngBridge /\ [][NextPng]_vars

\* An object awaits encoding, or a kind awaits the marker question.
InitWireCodec ==
    IdleContainer /\ IdleRLE /\ IdleForm /\ IdleDecode /\ IdleColor /\ IdlePng /\ InitWire /\ IdleMedia /\ IdleProject

NextWire == Build \/ BuildRaises \/ Parse \/ AskMarker

SpecWire == InitWireCodec /\ [][NextWire]_vars

\* Two empty dictionaries and the NamedObjects.
InitMediaDicts ==
    IdleContainer /\ IdleRLE /\ IdleForm /\ IdleDecode /\ IdleColor /\ IdlePng /\ IdleWire /\ InitMedia /\ IdleProject

NextMedia == Add \/ SetItem \/ Remove \/ Rename

SpecMedia == InitMediaDicts /\ [][NextMedia]_vars

\* A filled project before _normalize runs on it.
InitProjects ==
    IdleContainer /\ IdleRLE /\ IdleForm /\ IdleDecode /\ IdleColor /\ IdlePng /\ IdleWire /\ IdleMedia /\ InitProject

NextProject == Normalize \/ NormalizeRaises

SpecProject == InitProjects /\ [][NextProject]_vars

(***************************************************************************)
(* Properties of the pixel engine, checked under SpecForm.                  *)
(***************************************************************************)

\* The k-th (0-based) group of 4 values of a flat sequence.
Quad(s, k) == SubSeq(s, 4 * k + 1, 4 * k + 4)

\* An (r, g, b, a) pixel whose alpha was forgotten: alpha 0, some channel not 0.
ForgottenAlpha(p) == p[4] = 0 /\ (p[1] # 0 \/ p[2] # 0 \/ p[3] # 0)

\* C1: from_array(w, h, to_array(from_array(w, h, px))) succeeds and holds
\* the pixels of px, each unchanged except that a pixel with alpha 0 and a
\* nonzero r, g or b has alpha 255; width and height are those given.
C1_RoundTrip ==
    /\ f_pc = "form" => Form_to_array(f_form[1]).ok
    /\ f_pc = "array" => Form_from_array(f_arr.width, f_arr.height, f_arr.rgba).ok
    /\ (f_pc = "form" /\ f_calls >= 2) =>
         LET form == f_form[1]
             n == f_px.width * f_px.height
         IN  /\ form.width = f_px.width
             /\ form.height = f_px.height
             /\ form.depth = 32
             /\ Len(form.bits.value) = 4 * n
             /\ \A k \in 0..(n - 1) :
                  LET p == Quad(f_px.rgba, k)
                      w == Quad(form.bits.value, k)
                  IN  <<w[2], w[3], w[4], w[1]>> =
                        IF ForgottenAlpha(p) THEN <<p[1], p[2], p[3], 255>> ELSE p

\* C1 witness: the second from_array has returned a Form of two pixels, one
\* with a forgotten alpha and one with a real alpha.
C1_Witness ==
    /\ f_pc = "form"
    /\ f_calls = 2
    /\ f_px.width * f_px.height = 2
    /\ ForgottenAlpha(Quad(f_px.rgba, 0))
    /\ Quad(f_px.rgba, 1)[4] = 128

(***************************************************************************)
(* Properties of the container codec, checked under SpecContainer.          *)
(***************************************************************************)

\* from_value has returned an object of a Dictionary class.
DictDecoded == c_pc \in {"decoded", "encoded"} /\ c_cls \in DictionaryIDs

\* from_value has returned an object of a Collection class other than Dictionary.
ListDecoded == c_pc \in {"decoded", "encoded"} /\ c_cls \in CollectionIDs

\* Two records of the parsed dictionary share a key.
RepeatedKey ==
    \E i, j \in 1..Len(c_obj.items) : i # j /\ c_obj.items[i].key = c_obj.items[j].key

\* The keys of the parsed records.
ParsedKeys == { c_obj.items[i].key : i \in 1..Len(c_obj.items) }

ValueCount ==
    IF c_cls \in DictionaryIDs THEN Cardinality(DOMAIN c_value) ELSE Len(c_value)

C4_LengthChecked ==
    (c_pc # "parsed" /\ Len(c_obj.items) # c_obj.length) => c_pc = "failed"

StatedInt(s, pos) ==
    IF pos > Len(s) THEN [size |-> 0]
    ELSE IF s[pos] <= 223 THEN [size |-> 1, value |-> s[pos]]
    ELSE IF s[pos] <= 254
         THEN IF pos + 1 <= Len(s)
              THEN [size |-> 2, value |-> (s[pos] - 224) * 256 + s[pos + 1]]
              ELSE [size |-> 0]
    ELSE IF pos + 4 <= Len(s)
         THEN [size |-> 5,
               value |-> s[pos + 1] * 16777216 + s[pos + 2] * 65536
                         + s[pos + 3] * 256 + s[pos + 4]]
         ELSE [size |-> 0]

\* The bytes the runs from pos on stand for, as section 4.3 words them, up
\* to the end of the input or the first run that is cut short.
RECURSIVE StatedBits(_, _)
StatedBits(s, pos) ==
    LET v == StatedInt(s, pos) IN
    IF v.size = 0 THEN <<>>
    ELSE LET code == v.value % 4
             n    == (v.value - code) \div 4
             at   == pos + v.size
             need == CASE code = 0 -> 0 [] code = 1 -> 1 [] code = 2 -> 4
                       [] code = 3 -> 4 * n
         IN  IF at + need - 1 > Len(s) THEN <<>>
             ELSE (CASE code = 0 -> [i \in 1..(4 * n) |-> 0]
                     [] code = 1 -> [i \in 1..(4 * n) |-> s[at]]
                     [] code = 2 -> [i \in 1..(4 * n) |-> s[at + ((i - 1) % 4)]]
                     [] code = 3 -> SubSeq(s, at, at + 4 * n - 1))
                  \o StatedBits(s, at + need)

\* The sum of the run_length fields of a list of runs.
RECURSIVE SumRunLengths(_)
SumRunLengths(runs) ==
    IF runs = <<>> THEN 0 ELSE Head(runs).run_length + SumRunLengths(Tail(runs))

\* C6: the bits from_byte_array returns are the words of the runs, each run
\* decoded by its data_code = V mod 4 and run_length = (V - data_code) / 4
\* (0: zero words, 1: words BBBB, 2: copies of one word, 3: literal words),
\* joined in run order; their length is 4 times the sum of the run lengths.
C6_RunsDecoded ==
    (r_pc = "done" /\ r_res.ok) =>
      /\ r_res.value = StatedBits(r_bytes, StatedInt(r_bytes, 1).size + 1)
      /\ Len(r_res.value) = 4 * SumRunLengths(r_res.runs)
      /\ \A k \in 1..Len(r_res.runs) :
           /\ r_res.runs[k].data_code \in 0..3
           /\ Len(r_res.runs[k].pixels) = r_res.runs[k].run_length
           /\ \A i \in 1..Len(r_res.runs[k].pixels) : Len(r_res.runs[k].pixels[i]) = 4

\* C6 witness: a run of three copies of a nonzero word followed by a run of
\* two zero words, decoded to 20 bytes.
C6_Witness ==
    /\ r_pc = "done"
    /\ r_res.ok
    /\ Len(r_res.runs) = 2
    /\ r_res.runs[1].data_code = 2
    /\ r_res.runs[1].run_length = 3
    /\ r_res.runs[1].pixels[1] = <<1, 2, 3, 4>>
    /\ r_res.runs[2].data_code = 0
    /\ Len(r_res.value) = 12 + 8

\* The input is a one-byte length, a one-byte header of data_code code, and
\* exactly need bytes after them.
SingleRun(s, code, need) ==
    /\ Len(s) = 2 + need
    /\ s[1] <= 223
    /\ s[2] <= 223
    /\ s[2] % 4 = code

\* C7: a one-byte length, a header with data_code 3 and run_length n, and
\* exactly 4n literal bytes decode to those 4n bytes in the same order.
C7_LiteralRun ==
    (r_pc = "done" /\ Len(r_bytes) >= 2
       /\ SingleRun(r_bytes, 3, 4 * (r_bytes[2] \div 4))) =>
      /\ r_res.ok
      /\ r_res.value = SubSeq(r_bytes, 3, Len(r_bytes))

\* C7 witness: the input 2, 11 and 8 literal bytes forming two different
\* words has been decoded.
C7_Witness ==
    /\ r_pc = "done"
    /\ Len(r_bytes) = 10
    /\ r_bytes[1] = 2
    /\ r_bytes[2] = 11
    /\ SubSeq(r_bytes, 3, 6) # SubSeq(r_bytes, 7, 10)
    /\ r_res.ok

\* C8: a header with data_code 2 and run_length n followed by one 4-byte
\* word W decodes to n copies of W, 4n bytes; every run of data_code 2 holds
\* run_length equal words.
C8_RepeatedWord ==
    /\ (r_pc = "done" /\ Len(r_bytes) >= 2 /\ SingleRun(r_bytes, 2, 4)) =>
         /\ r_res.ok
         /\ r_res.value = Repeat(SubSeq(r_bytes, 3, 6), r_bytes[2] \div 4)
         /\ Len(r_res.value) = 4 * (r_bytes[2] \div 4)
    /\ (r_pc = "done" /\ r_res.ok) =>
         \A k \in 1..Len(r_res.runs) :
           r_res.runs[k].data_code = 2 =>
             /\ Len(r_res.runs[k].pixels) = r_res.runs[k].run_length
             /\ \A i \in 1..Len(r_res.runs[k].pixels) :
                  r_res.runs[k].pixels[i] = r_res.runs[k].pixels[1]

\* C8 witness: the header 14 (data_code 2, run_length 3) and the word
\* 1 2 3 4 have been decoded to 12 bytes.
C8_Witness ==
    /\ r_pc = "done"
    /\ Len(r_bytes) = 6
    /\ r_bytes[1] <= 223
    /\ r_bytes[2] = 14
    /\ SubSeq(r_bytes, 3, 6) = <<1, 2, 3, 4>>
    /\ r_res.ok
    /\ Len(r_res.value) = 12

\* C9: Bitmap._int, at every position of every input: a first byte b <= 223
\* gives b and takes 1 byte; 224 <= b <= 254 gives (b - 224) * 256 + c and
\* takes 2; b = 255 gives the next 4 bytes big-endian and takes 5; the
\* integer is not read when the input ends inside it.  The length of the
\* parsed result is the integer at the start of the input.  The three
\* ranges split 0..255.
C9_VarInt ==
    /\ \A pos \in 1..Len(r_bytes) :
         LET got == Bitmap_int(r_bytes, pos)
             b == r_bytes[pos]
             left == Len(r_bytes) - pos
         IN  /\ b <= 223 =>
                  got.ok /\ got.value = b /\ got.pos = pos + 1
             /\ (224 <= b /\ b <= 254) =>
                  IF left >= 1
                  THEN /\ got.ok
                       /\ got.value = (b - 224) * 256 + r_bytes[pos + 1]
                       /\ got.pos = pos + 2
                  ELSE ~got.ok
             /\ b = 255 =>
                  IF left >= 4
                  THEN /\ got.ok
                       /\ got.value = r_bytes[pos + 1] * 16777216 + r_bytes[pos + 2] * 65536
                                      + r_bytes[pos + 3] * 256 + r_bytes[pos + 4]
                       /\ got.pos = pos + 5
                  ELSE ~got.ok
    /\ (r_pc = "done" /\ r_res.ok) => r_res.length = StatedInt(r_bytes, 1).value
    /\ \A b \in 0..255 :
         /\ (b <= 223) \/ (224 <= b /\ b <= 254) \/ (b = 255)
         /\ ~(b <= 223 /\ 224 <= b)
         /\ ~(b <= 254 /\ b = 255)

\* C9 witness: a length read in the 5-byte form and a run header read in
\* the 2-byte form, both decoded.
C9_Witness ==
    /\ r_pc = "done"
    /\ r_res.ok
    /\ Len(r_bytes) = 7
    /\ r_bytes[1] = 255
    /\ r_res.length = 5
    /\ r_bytes[6] = 224
    /\ Len(r_res.runs) = 1

\* The input ends inside the variable-length integer of the run header at
\* pos, or of a later run header: at least one byte of it is there and not
\* all of them.
RECURSIVE HeaderCutShort(_, _)
HeaderCutShort(s, pos) ==
    IF pos > Len(s) THEN FALSE
    ELSE LET v == StatedInt(s, pos) IN
         IF v.size = 0 THEN TRUE
         ELSE LET code == v.value % 4
                  n    == (v.value - code) \div 4
                  need == CASE code = 0 -> 0 [] code = 1 -> 1 [] code = 2 -> 4
                            [] code = 3 -> 4 * n
              IN  IF pos + v.size + need - 1 > Len(s) THEN FALSE
                  ELSE HeaderCutShort(s, pos + v.size + need)

\* The input ends before or inside the length prefix, or inside a run header.
IntCutShort(s) ==
    \/ StatedInt(s, 1).size = 0
    \/ HeaderCutShort(s, StatedInt(s, 1).size + 1)

\* C10: when the input ends inside the length prefix or inside a run
\* header's integer, from_byte_array raises and returns no Bitmap.
C10_TruncationRaises ==
    (r_pc = "done" /\ IntCutShort(r_bytes)) => ~r_res.ok

(***************************************************************************)
(* Properties of the image decoder, checked under SpecDecode.               *)
(***************************************************************************)

\* C11: once built() has returned, bits is a Bitmap: the run-length decoding
\* of the parsed ByteArray, or the parsed Bitmap itself; a further built()
\* leaves it so, and no other field of the Form changes.
C11_BuiltOnce ==
    d_built >= 1 =>
        /\ d_form.bits.cls = "Bitmap"
        /\ d_form.bits =
             IF d_parsed.bits.cls = "ByteArray"
             THEN Bitmap(Bitmap_from_byte_array(d_parsed.bits.value).value)
             ELSE d_parsed.bits
        /\ d_form = [d_parsed EXCEPT !.bits = d_form.bits]

\* C11 witness: built() has returned twice on a Form parsed with a ByteArray
\* that holds one word repeated 3 times.
C11_Witness ==
    /\ d_built = 2
    /\ d_parsed.bits = ByteArray(<<3, 14, 0, 1, 0, 0>>)
    /\ d_form.bits = Bitmap(<<0, 1, 0, 0, 0, 1, 0, 0, 0, 1, 0, 0>>)

\* to_array has been called on the Form: it returned or raised.
ToArrayCalled == d_pc \in {"array", "to_array_raised"}

\* C12 (as stated): to_array on a Form of depth 1, 2, 4, 8 or 32 returns
\* exactly width * height pixels, whatever the length of bits.
C12_ExactPixelCount ==
    (ToArrayCalled /\ d_form.bits.cls = "Bitmap" /\ d_form.depth \in {1, 2, 4, 8, 32})
        => /\ d_out.ok
           /\ Len(d_out.rgba) = 4 * d_form.width * d_form.height

\* C13 (as stated): to_array on the depth-1 Form of width 3 and height 1
\* without a palette whose bits are the byte 128 returns 3 pixels: the
\* default palette's colour 1, then its colour 0 twice.
C13_PaddedRow ==
    (ToArrayCalled /\ d_form = Form_from_value(3, 1, 1, Bitmap(<<128>>), <<>>))
        => /\ d_out.ok
           /\ Len(d_out.rgba) = 12
           /\ d_out.rgba = squeak_colors[1] \o squeak_colors[0] \o squeak_colors[0]

\* Number of 32-bit words in a scanline of width pixels of depth bits each.
WordsPerRow(width, depth) == (width * depth + 31) \div 32

\* The bits hold height scanlines, each a whole number of words.
WholeWordRows(form) ==
    Len(form.bits.value) = 4 * form.height * WordsPerRow(form.width, form.depth)

\* The index stored for the pixel in row y, column x (both 0-based).
StoredIndex(form, y, x) ==
    pixel_index(form.bits.value, form.depth,
                y * WordsPerRow(form.width, form.depth) * (32 \div form.depth) + x)

\* Every index stored in the bits is one the palette is said to hold: 0..255
\* for the default palette, a position of the list for a custom one.
IndicesInPalette(form) ==
    \A k \in 0..(((Len(form.bits.value) * 8) \div form.depth) - 1) :
        LET pixel == pixel_index(form.bits.value, form.depth, k)
        IN  IF form.colors = <<>> THEN pixel \in 0..255
            ELSE pixel < Len(form.colors[1])

\* The colour the palette of the Form holds at an index.
PaletteColour(form, pixel) ==
    IF form.colors = <<>> THEN squeak_colors[pixel]
    ELSE Color_to_rgba_array(form.colors[1][pixel + 1])

\* C14 (as stated): for depth 1, 2, 4 or 8 and bits of whole-word scanlines,
\* to_array emits, row by row, the colours of the first width indices of
\* the row and nothing for the padding indices.
C14_RowPadding ==
    (/\ ToArrayCalled
     /\ d_form.depth \in {1, 2, 4, 8}
     /\ d_form.bits.cls = "Bitmap"
     /\ WholeWordRows(d_form)
     /\ IndicesInPalette(d_form))
        => /\ d_out.ok
           /\ d_out.rgba =
                Flatten([n \in 1..(d_form.width * d_form.height) |->
                           PaletteColour(d_form,
                               StoredIndex(d_form, (n - 1) \div d_form.width,
                                                   (n - 1) % d_form.width))])

\* C15: to_array on a depth-32 Form emits, for each word (a, r, g, b) of
\* bits, the pixel (r, g, b, a), with a replaced by 255 exactly when a is 0
\* and r, g or b is not 0.
C15_Depth32Words ==
    (ToArrayCalled /\ d_form.depth = 32 /\ Len(d_form.bits.value) % 4 = 0)
        => /\ d_out.ok
           /\ Len(d_out.rgba) = Len(d_form.bits.value)
           /\ \A k \in 0..((Len(d_form.bits.value) \div 4) - 1) :
                LET w == Quad(d_form.bits.value, k)
                IN  Quad(d_out.rgba, k) =
                      <<w[2], w[3], w[4],
                        IF w[1] = 0 /\ (w[2] # 0 \/ w[3] # 0 \/ w[4] # 0)
                        THEN 255 ELSE w[1]>>

\* C15 witness: to_array returned the pixels of a forgotten-alpha word and
\* of a word with a real alpha.
C15_Witness ==
    /\ d_pc = "array"
    /\ d_form.depth = 32
    /\ d_form.bits.value = <<0, 1, 0, 0, 200, 0, 0, 1>>
    /\ d_out.rgba = <<1, 0, 0, 255, 0, 0, 1, 200>>

\* C16: to_array on a depth-16 Form raises NotImplementedError and returns
\* no array, whatever width, height and bits are.
C16_Depth16Rejected ==
    /\ (d_pc \in {"form", "built_raised"} /\ d_form.depth = 16)
          => ~Form_to_array(d_form).ok
    /\ (ToArrayCalled /\ d_form.depth = 16)
          => /\ d_pc = "to_array_raised"
             /\ ~d_out.ok
             /\ d_out.error = "NotImplementedError"

\* C16 witness: to_array raised on a depth-16 Form of 4 x 2 pixels whose
\* bits hold two words.
C16_Witness ==
    /\ d_pc = "to_array_raised"
    /\ d_form.depth = 16
    /\ d_form.width = 4
    /\ d_form.height = 2
    /\ d_form.bits = Bitmap(<<0, 1, 0, 0, 200, 0, 0, 1>>)

\* C19 (as stated): the default palette used by a Form without colors holds
\* exactly 256 entries, each of 4 values 0..255 whose last (alpha) is 255.
C19_DefaultPalette ==
    (d_pc = "form" /\ d_form.colors = <<>> /\ d_form.depth <= 8)
        => /\ DOMAIN squeak_colors = 0..255
           /\ \A i \in DOMAIN squeak_colors :
                /\ Len(squeak_colors[i]) = 4
                /\ \A j \in 1..4 : squeak_colors[i][j] \in 0..255
                /\ squeak_colors[i][4] = 255

\* The position in the generator's output (0-based) of the n-th (0-based)
\* pixel to_array emits: every row of width pixels is followed by the
\* padding, (ppw - width mod ppw) mod ppw indices.
EmittedFrom(form, n) ==
    LET ppw == 32 \div form.depth
        padding == (ppw - (form.width % ppw)) % ppw
    IN  IF form.width = 0 THEN n
        ELSE (n \div form.width) * (form.width + padding) + (n % form.width)

\* C20: with a custom palette and depth at most 8, the pixel emitted for an
\* index is (r >> 2, g >> 2, b >> 2, 255) for a Color at that index and
\* (r >> 2, g >> 2, b >> 2, alpha >> 2) for a TranslucentColor.
C20_CustomPalette ==
    (d_pc = "array" /\ d_form.depth <= 8 /\ d_form.colors # <<>>)
        => /\ Len(d_out.rgba) % 4 = 0
           /\ \A n \in 0..((Len(d_out.rgba) \div 4) - 1) :
                LET pixel == pixel_index(d_form.bits.value, d_form.depth,
                                         EmittedFrom(d_form, n))
                    color == d_form.colors[1][pixel + 1]
                IN  Quad(d_out.rgba, n) =
                      <<color.r \div 4, color.g \div 4, color.b \div 4,
                        IF color.cls = "TranslucentColor"
                        THEN color.alpha \div 4 ELSE 255>>

\* C20 witness: to_array returned a row of a depth-8 Form whose palette holds
\* a Color and a TranslucentColor, both of them used.
C20_Witness ==
    /\ d_pc = "array"
    /\ d_form.depth = 8
    /\ d_form.width = 3
    /\ d_form.colors = << <<Color(1023, 0, 4), TranslucentColor(4, 8, 1023, 512)>> >>
    /\ d_form.bits = Bitmap(<<0, 1, 0, 0>>)
    /\ d_out.rgba = <<255, 0, 1, 255, 1, 2, 255, 128, 255, 0, 1, 255>>

(***************************************************************************)
(* Properties of the colours, checked under SpecColor.                      *)
(***************************************************************************)

\* C17: from_32bit_raw_argb of the bytes (alpha, r, g, b) gives r, g, b
\* shifted left by 2, and alpha 1023 when the raw alpha is 0 and r, g or b
\* is not 0, the raw alpha shifted left by 2 otherwise; (0, 10, 0, 0) gets
\* alpha 1023 and (0, 0, 0, 0) keeps alpha 0.
C17_RawArgb ==
    (k_raw # <<>> /\ k_pc \in {"color", "done"})
        => /\ k_color.cls = "TranslucentColor"
           /\ k_color.r = k_raw[2] * 4
           /\ k_color.g = k_raw[3] * 4
           /\ k_color.b = k_raw[4] * 4
           /\ k_color.alpha =
                IF k_raw[1] = 0 /\ (k_raw[2] # 0 \/ k_raw[3] # 0 \/ k_raw[4] # 0)
                THEN 1023 ELSE k_raw[1] * 4
           /\ k_raw = <<0, 10, 0, 0>> => k_color.alpha = 1023
           /\ k_raw = <<0, 0, 0, 0>> => k_color.alpha = 0

\* C17 witness: from_32bit_raw_argb returned for the raw bytes (0, 10, 0, 0).
C17_Witness ==
    /\ k_pc = "color"
    /\ k_raw = <<0, 10, 0, 0>>
    /\ k_color = TranslucentColor(40, 0, 0, 1023)

\* The channels of a colour, as Color.value / TranslucentColor.value list them.
ColorValue(color) ==
    IF color.cls = "TranslucentColor"
    THEN <<color.r, color.g, color.b, color.alpha>>
    ELSE <<color.r, color.g, color.b>>

\* C18: for a colour whose channels are in 0..1023, to_8bit returns every
\* channel shifted right by 2, a value in 0..255; Color(1023, 0, 0) gives
\* (255, 0, 0).
C18_To8Bit ==
    k_pc = "done"
        => /\ Len(k_out) = Len(ColorValue(k_color))
           /\ \A i \in 1..Len(k_out) :
                /\ k_out[i] = ColorValue(k_color)[i] \div 4
                /\ k_out[i] \in 0..255
           /\ k_color = Color(1023, 0, 0) => k_out = <<255, 0, 0>>

\* C18 witness: to_8bit returned for Color(1023, 0, 0).
C18_Witness ==
    /\ k_pc = "done"
    /\ k_color = Color(1023, 0, 0)
    /\ k_out = <<255, 0, 0>>

(***************************************************************************)
(* The length prefix of the run-length form, checked under SpecRLE.         *)
(***************************************************************************)

\* Encodings of other length prefixes: one byte, two bytes, five bytes.
OtherPrefixes == {<<0>>, <<1>>, <<223>>, <<224, 7>>, <<254, 255>>, <<255, 0, 0, 1, 0>>}

\* The bytes of an input after its length prefix.
AfterPrefix(s) == SubSeq(s, Bitmap_int(s, 1).pos, Len(s))

\* C25: an input with its length prefix replaced by any other decodes to
\* the same bytes, and the decoded bytes are all the words of all the runs
\* parsed, whether more or fewer than the prefix declares.
C25_LengthAdvisory ==
    (r_pc = "done" /\ r_res.ok)
        => /\ \A p \in OtherPrefixes :
                LET other == Bitmap_from_byte_array(p \o AfterPrefix(r_bytes))
                IN  /\ other.ok
                    /\ other.length = Bitmap_int(p, 1).value
                    /\ other.value = r_res.value
           /\ Len(r_res.value) = 4 * SumRunLengths(r_res.runs)

\* C25 witness: an input declaring 2 words was decoded to the 3 words of
\* its two runs.
C25_Witness ==
    /\ r_pc = "done"
    /\ r_bytes = <<2, 5, 5, 8>>
    /\ r_res.ok
    /\ r_res.length = 2
    /\ Len(r_res.runs) = 2
    /\ r_res.value = <<5, 5, 5, 5, 0, 0, 0, 0, 0, 0, 0, 0>>

(***************************************************************************)
(* Properties of the PNG bridge, checked under SpecPng.                     *)
(***************************************************************************)

\* The call of the PNG bridge has returned or raised.
PngCalled == p_pc \in {"returned", "raised"}

\* C21 (as stated): save_png without the png module raises the
\* missing-capability ValueError before any file operation; load_png without
\* it raises the same kind of error; load_png of a PNG whose bit depth is
\* not 8 raises it too and returns no Form.
C21_MissingCapability ==
    /\ (PngCalled /\ p_op = "save" /\ ~p_png)
          => /\ p_pc = "raised"
             /\ p_out.error = "ValueError"
             /\ p_files = <<>>
    /\ (PngCalled /\ p_op = "load" /\ ~p_png)
          => /\ p_pc = "raised"
             /\ p_out.error = "ValueError"
    /\ (PngCalled /\ p_op = "load" /\ p_png /\ p_image.bitdepth # 8)
          => /\ p_pc = "raised"
             /\ p_out.error = "ValueError"

\* C22 (as stated): load_png of an 8-bit PNG returns a depth-32 Form of the
\* PNG's width and height whose words (a, r, g, b) hold the source r, g, b
\* with the source alpha, or 255 when the PNG has no alpha channel.
C22_LoadPng ==
    (PngCalled /\ p_op = "load" /\ p_png /\ p_image.bitdepth = 8)
        => /\ p_pc = "returned"
           /\ p_out.form.depth = 32
           /\ p_out.form.width = p_image.width
           /\ p_out.form.height = p_image.height
           /\ LET size == IF p_image.alpha THEN 4 ELSE 3
                  n == p_image.width * p_image.height
              IN  /\ Len(p_out.form.bits.value) = 4 * n
                  /\ \A k \in 0..(n - 1) :
                       LET src == SubSeq(p_image.color_array, size * k + 1,
                                         size * k + size)
                       IN  Quad(p_out.form.bits.value, k) =
                             <<IF p_image.alpha THEN src[4] ELSE 255,
                               src[1], src[2], src[3]>>

(***************************************************************************)
(* Wire codec properties.                                                   *)
(***************************************************************************)

\* The object has been encoded (and perhaps decoded again).
Encoded(cls) == w_pc \in {"built", "parsed"} /\ w_obj.cls = cls

\* C23: a Color with r, g, b in 0..1023 encodes to the 4 big-endian bytes of
\* r * 2^20 + g * 2^10 + b (2 zero padding bits on top); decoding the bytes
\* gives the same r, g, b, whatever the 2 padding bits are.
C23_ColorPacking ==
    Encoded("Color") =>
        LET n == w_obj.r * 1048576 + w_obj.g * 1024 + w_obj.b
            bytes == w_wire.bytes
        IN  /\ w_wire.ok
            /\ bytes = <<n \div 16777216, (n \div 65536) % 256, (n \div 256) % 256, n % 256>>
            /\ \A pad \in 0..3 :
                 construct_parse("Color", <<bytes[1] + 64 * pad>> \o Tail(bytes)) = w_obj
            /\ w_pc = "parsed" => w_back = w_obj

\* C23 witness: a Color with three different non-zero channels went through
\* build and parse.
C23_Witness ==
    /\ w_pc = "parsed"
    /\ w_obj = Color(1023, 4, 3)
    /\ w_wire.bytes = <<63, 240, 16, 3>>
    /\ w_back = w_obj

\* C26: every TranslucentColor with r, g, b, alpha in 0..1023 is encoded
\* without an error and decodes to the same four components.
C26_TranslucentRoundTrip ==
    (w_pc # "object" /\ w_obj # <<>> /\ w_obj.cls = "TranslucentColor") =>
        /\ w_pc # "build_raised"
        /\ w_pc = "parsed" => w_back = w_obj

\* C27: the raw form of a Bitmap of n bytes declares L words with
\* 4 * L >= n (L = n / 4 when 4 divides n), and decoding gives a string that
\* starts with the n bytes.
C27_BitmapRawKeepsBytes ==
    (w_pc = "parsed" /\ w_obj.cls = "Bitmap") =>
        LET n == Len(w_obj.value)
            L == UBInt32(w_wire.bytes, 1)
        IN  /\ 4 * L >= n
            /\ n % 4 = 0 => L = n \div 4
            /\ Len(w_back.value) >= n
            /\ SubSeq(w_back.value, 1, n) = w_obj.value

\* C28: a kind carries the ContainsRefs marker exactly when its _construct
\* holds Field elements.
C28_MarkerOnFieldKinds ==
    w_pc = "asked" => (w_marked[1] <=> w_kind[1] \in FieldKinds)

(***************************************************************************)
(* Media dictionary properties.                                             *)
(***************************************************************************)

\* The last operation was d[name] = obj on the MediaDict, with obj not in
\* it and named otherwise.
AssignedNew ==
    /\ m_op # <<>>
    /\ m_op.op = "setitem"
    /\ m_op.d = <<"md">>
    /\ m_op.o \notin dict_values(m_pre, "md")
    /\ m_pre.name[m_op.o] # m_op.name

\* C24: d[name] = obj on a MediaDict d, empty or not, with obj not in d and
\* named otherwise, succeeds; then obj.name == name, d[name] is obj and the
\* other entries of d are as before.
C24_SetItemNew ==
    AssignedNew =>
        LET n == m_op.name[1]
        IN  /\ m_out = "ok"
            /\ m_name[m_op.o] = <<n>>
            /\ DOMAIN m_md = DOMAIN m_pre.md \cup {n}
            /\ m_md[n] = m_op.o
            /\ \A k \in DOMAIN m_pre.md \ {n} : m_md[k] = m_pre.md[k]

\* C29: as long as no operation raised, every key of both dictionaries is
\* the current name of the object stored under it, and the object an add or
\* an assignment has just stored is found under its current name.
C29_KeyIsName ==
    ~m_raised =>
        /\ \A d \in Dicts : \A k \in dict_keys(Heap, d) :
             m_name[dict_get(Heap, d, k)] = <<k>>
        /\ (m_op # <<>> /\ m_op.op \in {"add", "setitem"}) =>
             /\ unicode(m_name[m_op.o]) \in dict_keys(Heap, m_op.d[1])
             /\ dict_get(Heap, m_op.d[1], unicode(m_name[m_op.o])) = m_op.o

(***************************************************************************)
(* Project properties.                                                      *)
(***************************************************************************)

\* C30: after any number of _normalize calls that returned, no sprite and
\* no watcher is in Project.actors twice, and a _normalize after the first
\* leaves actors as it was.
C30_NoDuplicateActors ==
    (n_calls >= 1 /\ n_out = "ok") =>
        /\ \A i, j \in 1..Len(n_actors) : n_actors[i] = n_actors[j] => i = j
        /\ n_calls >= 2 => n_actors = n_prev[1]

=============================================================================
